---- MODULE Spec2Model ----
(***************************************************************************)
(* Capture scheduler of AllSkyHyde (src/flask_app.py): the module globals, *)
(* the background worker thread, the manual-capture threads and the        *)
(* request handlers that start, stop, re-time and trigger captures; the    *)
(* twilight period of a scheduling decision; and the exposure search of    *)
(* src/image_capture.py, one trial per step.                               *)
(*                                                                         *)
(* One action is one atomic step of one thread.  A request handler that    *)
(* blocks (Stop's join, SetInterval's stop / sleep / start) is cut at the  *)
(* blocking points; the worker loop is cut at its loop head, at the        *)
(* subprocess it waits for, and at every one-second sleep.                 *)
(*                                                                         *)
(* Outside the model: the text of a log line (a line is known by the       *)
(* number of the append that wrote it), the content of an image, and a     *)
(* failing write of the configuration file (save_config is taken to        *)
(* succeed; the spec names persistence mechanics out of scope).            *)
(***************************************************************************)
EXTENDS Integers, Sequences, FiniteSets, TLC

\* ---------------------------------------------------------------- bounds

\* Worker thread objects that can exist at once.
MaxWorkers == 2
\* Manual-capture thread objects that can exist at once.
MaxManual == 1
\* Request handlers of the server (a threaded server runs them side by side).
MaxHandlers == 2
\* New requests, ticks and subprocess output are admitted while the log is
\* shorter than this.
MaxLog == 5
\* capture_interval as found in a configuration file written before start.
CfgInterval == 2
\* In the log specification, lines are appended until this many more than
\* the log's capacity have been written.
MaxOverflow == 2
\* In the restart specification, new requests and captures are admitted while
\* the log is shorter than this: room for a cycle, a stop, a start and the
\* next cycle.
MaxCycleLog == 8
\* Log lines after which the concurrent requests stop arriving.
MaxRaceLog == 3
\* Log lines after which no further manual capture is requested.
MaxTriggerLog == 2

\* ------------------------------------------------------ program constants

\* capture_interval = 300
DefaultInterval == 300
\* if new_interval < 30: rejected
MinInterval == 30
\* if len(capture_log) > 100: capture_log.pop(0)
LogCap == 100

Workers == 1..MaxWorkers
Manuals == 1..MaxManual
Handlers == 1..MaxHandlers

\* No thread object (capture_thread = None).
NoThread == 0
\* exposure_ms = None.
NoExposure == -1
\* No worker acquisition has ended in this process.
NoWaits == -1

Periods ==
  {"daytime", "civil_twilight", "nautical_twilight", "astronomical_darkness",
   "unknown"}

\* app_settings as the module sets it: no site, darkness-only window policy.
DefaultSettings ==
  [located |-> FALSE,
   capture_daytime |-> FALSE,
   capture_civil_twilight |-> FALSE,
   capture_nautical_twilight |-> FALSE,
   capture_astronomical_darkness |-> TRUE]

\* Settings a configuration file may hold: the defaults with a site, and a
\* site with every window flag off.
SettingsChoices ==
  {[DefaultSettings EXCEPT !.located = TRUE],
   [DefaultSettings EXCEPT !.located = TRUE,
                           !.capture_astronomical_darkness = FALSE]}

\* No configuration file on disk.
NoConfig ==
  [exists |-> FALSE, settings |-> DefaultSettings,
   capture_interval |-> DefaultInterval, background_capture_enabled |-> FALSE]

VARIABLES
  capture_interval,            \* seconds between captures
  is_capturing,                \* advisory "camera busy" flag
  capture_log,                 \* list of log lines
  capture_thread,              \* the worker thread object last created
  stop_capture_flag,           \* stop signal polled by the worker
  last_capture_time,           \* logical time of the last completed capture
  background_capture_enabled,  \* run intent
  app_settings,                \* site and window policy
  config,                      \* the configuration file
  booted,                      \* module import has run
  worker,                      \* worker thread objects: [pc, left, success]
  manual,                      \* manual-capture threads: [pc, exposure_ms]
  req,                         \* request handlers: [op, pc, joined, result]
  waits,                       \* history: one-second sleeps of the workers
                               \* since a worker's acquisition last ended
  decision,                    \* history: the inputs and the period of the
                               \* last scheduling decision that was recorded
  search,                      \* the exposure search of image_capture.py
  exposure_settings,           \* the exposure limits: in app_settings, in the
                               \* configuration file, and as image_capture.py
                               \* loaded them
  catalog                      \* the image files, and the last deletion

vars ==
  <<capture_interval, is_capturing, capture_log, capture_thread,
    stop_capture_flag, last_capture_time, background_capture_enabled,
    app_settings, config, booted, worker, manual, req, waits,
    decision, search, exposure_settings, catalog>>

globals ==
  <<capture_interval, is_capturing, capture_log, capture_thread,
    stop_capture_flag, last_capture_time, background_capture_enabled,
    app_settings>>

DeadWorker == [pc |-> "none", left |-> 0, success |-> "unset"]
DeadManual == [pc |-> "none", exposure_ms |-> NoExposure]
IdleRequest == [op |-> "none", pc |-> "idle", joined |-> NoThread, result |-> "none"]
\* lower_bound = None, upper_bound = None, best_exposure = None.
NoBound == -1
\* test_exposure() returned None.
NoAdu == -1
\* No exposure search is in progress.
NoSearch ==
  [pc |-> "none", MIN_EXPOSURE_MS |-> 0, MAX_EXPOSURE_MS |-> 0,
   FALLBACK_EXPOSURE_MS |-> 0, target_adu |-> 0, k |-> 0, fails |-> "never",
   script |-> <<>>, adu |-> <<>>, finals |-> <<>>, status |-> "none",
   todo |-> <<>>, lower_bound |-> NoBound, upper_bound |-> NoBound,
   best_exposure |-> NoBound, best_err |-> NoBound, tested |-> <<>>,
   result |-> NoBound, outcome |-> "none", argv |-> <<>>]
\* MIN_EXPOSURE_MS = 1; max(1, ...)
DefaultMinExposure == 1
\* MAX_EXPOSURE_MS = 30000, FALLBACK_EXPOSURE_MS = 30000
DefaultMaxExposure == 30000
\* The exposure limits of a fresh installation: the defaults of app_settings,
\* a configuration file without the exposure keys, and the module defaults of
\* image_capture.py.
DefaultExposureSettings ==
  [app |-> [min_exposure_ms |-> DefaultMinExposure,
            max_exposure_ms |-> DefaultMaxExposure],
   file |-> [has_min |-> FALSE, min_exposure_ms |-> 0,
             has_max |-> FALSE, max_exposure_ms |-> 0],
   loaded |-> [MIN_EXPOSURE_MS |-> DefaultMinExposure,
               MAX_EXPOSURE_MS |-> DefaultMaxExposure,
               FALLBACK_EXPOSURE_MS |-> DefaultMaxExposure]]
\* No image file.
NoFile == 0
\* An empty image directory, and no deletion made.
NoCatalog ==
  [files |-> {}, op |-> "none", days |-> {}, latest |-> NoFile,
   scanned |-> {}, deleted |-> {}, failed_deletions |-> {}, skipped |-> {},
   status |-> "none", images |-> {}]
\* No scheduling decision has been recorded.
NoDecision ==
  [kind |-> "none", sunrise |-> 0, sunset |-> 0, now |-> 0, period |-> "none"]

\* ---------------------------------------------------------------- helpers

\* Thread.is_alive() of worker object w.
Alive(w) == w # NoThread /\ worker[w].pc # "none"

\* capture_thread and capture_thread.is_alive()
CaptureThreadAlive == Alive(capture_thread)

AliveWorkers == {w \in Workers : Alive(w)}

\* A capture subprocess of this thread drives the camera.
WorkerInFlight(w) == worker[w].pc = "cap_run"
ManualInFlight(m) == manual[m].pc = "cap_run"

\* A log line is modelled by the number of the append that wrote it: its text
\* is outside the model, its age is not.
NextLine(log) == IF log = <<>> THEN 1 ELSE log[Len(log)] + 1

\* capture_log.append(line)
Log(log) == Append(log, NextLine(log))

\* capture_log.append(line); if len(capture_log) > 100: capture_log.pop(0)
LogTrim(log) ==
  LET l == Log(log)
  IN  IF Len(l) > LogCap THEN Tail(l) ELSE l

\* save_config(): the file holds the globals as they are at the call.
SaveConfig(settings, interval, enabled) ==
  [exists |-> TRUE, settings |-> settings, capture_interval |-> interval,
   background_capture_enabled |-> enabled]

\* A worker slot no live thread and no pending join uses.
FreeWorker(w) ==
  /\ worker[w].pc = "none"
  /\ \A h \in Handlers : req[h].joined # w
  /\ \A v \in Workers :
       (v < w) => (worker[v].pc # "none" \/ \E h \in Handlers : req[h].joined = v)

FreeManual(m) ==
  /\ manual[m].pc = "none"
  /\ \A v \in Manuals : (v < m) => manual[v].pc # "none"

\* should_capture_be_active() that treats an unknown period as a closed window.
ShouldCapture_UnknownGated(settings, period) ==
  \/ period = "astronomical_darkness" /\ settings.capture_astronomical_darkness
  \/ period = "nautical_twilight" /\ settings.capture_nautical_twilight
  \/ period = "civil_twilight" /\ settings.capture_civil_twilight
  \/ period = "daytime" /\ settings.capture_daytime

\* should_capture_be_active() that always captures in astronomical darkness.
ShouldCapture_DefaultDarkness(settings, period) ==
  \/ period = "unknown"
  \/ period = "astronomical_darkness"
  \/ period = "nautical_twilight" /\ settings.capture_nautical_twilight
  \/ period = "civil_twilight" /\ settings.capture_civil_twilight
  \/ period = "daytime" /\ settings.capture_daytime

\* should_capture_be_active() that tests the civil flag in nautical twilight.
ShouldCapture_NauticalAsCivil(settings, period) ==
  \/ period = "unknown"
  \/ period = "astronomical_darkness" /\ settings.capture_astronomical_darkness
  \/ period = "nautical_twilight" /\ settings.capture_civil_twilight
  \/ period = "civil_twilight" /\ settings.capture_civil_twilight
  \/ period = "daytime" /\ settings.capture_daytime

\* should_capture_be_active() for a resolved period.
ShouldCapture(settings, period) ==
  \/ period = "unknown"
  \/ period = "astronomical_darkness" /\ settings.capture_astronomical_darkness
  \/ period = "nautical_twilight" /\ settings.capture_nautical_twilight
  \/ period = "civil_twilight" /\ settings.capture_civil_twilight
  \/ period = "daytime" /\ settings.capture_daytime

\* Periods get_current_twilight_period() can return: unknown without a site.
PossiblePeriods(settings) ==
  IF settings.located THEN Periods ELSE {"unknown"}

\* Times of day are counted in quarter hours.
\* % 24
Day == 96
\* sunset_hour + 1.5, sunrise_hour - 1.5
AstronomicalOffset == 6
\* sunset_hour - 0.5, sunrise_hour + 0.5
CivilOffset == 2

\* calculate_sunrise_sunset(): the sun never rises (cos_hour_angle > 1).
PolarNight == [kind |-> "polar_night", sunrise |-> 0, sunset |-> 0]
\* calculate_sunrise_sunset(): the sun never sets (cos_hour_angle < -1); the
\* function returns the strings "00:00" and "23:59".
MidnightSun == [kind |-> "midnight_sun", sunrise |-> 0, sunset |-> 0]
\* calculate_sunrise_sunset(): solar noon (with the timezone offset) minus and
\* plus the hour angle; the results are not reduced to one day.
SunTimes(noon, half) ==
  [kind |-> "times", sunrise |-> noon - half, sunset |-> noon + half]

\* The band tests of get_current_twilight_period(), darkest first.
ResolvePeriod(sunrise_hour, sunset_hour, current_hour) ==
  LET astronomical_twilight_end == (sunset_hour + AstronomicalOffset) % Day
      astronomical_twilight_begin == (sunrise_hour - AstronomicalOffset) % Day
      dark ==
        IF astronomical_twilight_end < astronomical_twilight_begin
          THEN \/ current_hour >= astronomical_twilight_end
               \/ current_hour < astronomical_twilight_begin
          ELSE /\ astronomical_twilight_end <= current_hour
               /\ current_hour < astronomical_twilight_begin
      nautical ==
        \/ sunset_hour <= current_hour /\ current_hour < astronomical_twilight_end
        \/ astronomical_twilight_begin <= current_hour /\ current_hour < sunrise_hour
      civil ==
        \/ sunset_hour - CivilOffset <= current_hour /\ current_hour < sunset_hour
        \/ sunrise_hour <= current_hour /\ current_hour < sunrise_hour + CivilOffset
  IN  IF dark THEN "astronomical_darkness"
      ELSE IF nautical THEN "nautical_twilight"
      ELSE IF civil THEN "civil_twilight"
      ELSE "daytime"

\* get_current_twilight_period() that takes the polar night for darkness.
GetCurrentTwilightPeriod_PolarNightDark(settings, sun, now) ==
  IF ~settings.located THEN "unknown"
  ELSE IF sun.kind = "polar_night" THEN "astronomical_darkness"
  ELSE IF sun.kind = "midnight_sun" THEN "unknown"
  ELSE ResolvePeriod(sun.sunrise, sun.sunset, now)

\* get_current_twilight_period(): unknown without a site and in the polar
\* night; for the midnight sun the arithmetic on the two strings raises, and
\* the except branch returns unknown.
GetCurrentTwilightPeriod(settings, sun, now) ==
  IF ~settings.located THEN "unknown"
  ELSE IF sun.kind = "polar_night" THEN "unknown"
  ELSE IF sun.kind = "midnight_sun" THEN "unknown"
  ELSE ResolvePeriod(sun.sunrise, sun.sunset, now)

\* The worker's state after one cycle: range(capture_interval) one-second
\* waits, none when the interval is not positive.  success is the loop's
\* local of that name ("unset" until a capture has returned).
AfterCycle(interval, success) ==
  IF interval > 0 THEN [pc |-> "sleep", left |-> interval, success |-> success]
  ELSE [pc |-> "tick", left |-> 0, success |-> success]

\* ------------------------------------------------------------------- Init

InitConfigs ==
  {NoConfig} \cup
  {SaveConfig(s, CfgInterval, e) : s \in SettingsChoices, e \in BOOLEAN}

\* The module globals as the import sets them, and no thread or request.
InitGlobals ==
  /\ capture_interval = DefaultInterval
  /\ is_capturing = FALSE
  /\ capture_log = <<>>
  /\ capture_thread = NoThread
  /\ stop_capture_flag = FALSE
  /\ last_capture_time = 0
  /\ background_capture_enabled = FALSE
  /\ app_settings = DefaultSettings
  /\ booted = FALSE
  /\ worker = [w \in Workers |-> DeadWorker]
  /\ manual = [m \in Manuals |-> DeadManual]
  /\ req = [h \in Handlers |-> IdleRequest]
  /\ waits = NoWaits
  /\ decision = NoDecision
  /\ search = NoSearch
  /\ exposure_settings = DefaultExposureSettings
  /\ catalog = NoCatalog

Init ==
  /\ InitGlobals
  /\ config \in InitConfigs

\* ------------------------------------------------- process start and restart

\* load_config(): the globals a configuration file overrides.
LoadedSettings == IF config.exists THEN config.settings ELSE app_settings
LoadedInterval == IF config.exists THEN config.capture_interval ELSE capture_interval
LoadedEnabled ==
  IF config.exists THEN config.background_capture_enabled
  ELSE background_capture_enabled

\* start_background_capture() that forgets save_config().
LaunchWorker_NoSave(settings, interval) ==
  \E w \in Workers :
    /\ worker[w].pc = "none"
    /\ \A v \in Workers : (v < w) => worker[v].pc # "none"
    /\ stop_capture_flag' = FALSE
    /\ background_capture_enabled' = TRUE
    /\ capture_thread' = w
    /\ worker' = [worker EXCEPT ![w] = [pc |-> "begin", left |-> 0, success |-> "unset"]]
    /\ UNCHANGED config

\* start_background_capture() past its liveness check: clear the stop signal,
\* record the intent, create and start the worker thread, save the file.
LaunchWorker(settings, interval) ==
  \E w \in Workers :
    /\ FreeWorker(w)
    /\ stop_capture_flag' = FALSE
    /\ background_capture_enabled' = TRUE
    /\ capture_thread' = w
    /\ worker' = [worker EXCEPT ![w] = [pc |-> "begin", left |-> 0, success |-> "unset"]]
    /\ config' = SaveConfig(settings, interval, TRUE)

\* Module import that takes the persisted intent as proof of a running
\* worker: it restores the flag and launches nothing.
Startup_NoResume ==
  /\ ~booted
  /\ booted' = TRUE
  /\ app_settings' = (IF config.exists THEN config.settings ELSE app_settings)
  /\ capture_interval' =
       (IF config.exists THEN config.capture_interval ELSE capture_interval)
  /\ background_capture_enabled' =
       (config.exists /\ config.background_capture_enabled)
  /\ UNCHANGED <<is_capturing, capture_log, capture_thread, stop_capture_flag,
                 last_capture_time, config, worker, manual, req>>
  /\ UNCHANGED <<waits, decision, search, exposure_settings, catalog>>

\* Module import: load the configuration, then resume the worker if the
\* persisted intent says so.
Startup ==
  /\ ~booted
  /\ booted' = TRUE
  /\ app_settings' = LoadedSettings
  /\ capture_interval' = LoadedInterval
  /\ IF LoadedEnabled
       THEN LaunchWorker(LoadedSettings, LoadedInterval)
       ELSE /\ background_capture_enabled' = LoadedEnabled
            /\ UNCHANGED <<stop_capture_flag, capture_thread, worker, config>>
  /\ UNCHANGED <<is_capturing, capture_log, last_capture_time, manual, req>>
  /\ UNCHANGED <<waits, decision, search, exposure_settings, catalog>>

\* The process ends (its daemon threads with it) and is started again: the
\* globals are those of a fresh import, the configuration file is kept.
Restart ==
  /\ booted
  /\ booted' = FALSE
  /\ capture_interval' = DefaultInterval
  /\ is_capturing' = FALSE
  /\ capture_log' = <<>>
  /\ capture_thread' = NoThread
  /\ stop_capture_flag' = FALSE
  /\ last_capture_time' = 0
  /\ background_capture_enabled' = FALSE
  /\ app_settings' = DefaultSettings
  /\ worker' = [w \in Workers |-> DeadWorker]
  /\ manual' = [m \in Manuals |-> DeadManual]
  /\ req' = [h \in Handlers |-> IdleRequest]
  /\ waits' = NoWaits
  /\ decision' = NoDecision
  /\ search' = NoSearch
  /\ UNCHANGED <<exposure_settings, catalog>>
  /\ UNCHANGED config

\* ------------------------------------------------ background_capture_loop

\* The thread's first statement: the "Background capture started" line.
WorkerBegin(w) ==
  /\ worker[w].pc = "begin"
  /\ capture_log' = Log(capture_log)
  /\ worker' = [worker EXCEPT ![w].pc = "tick"]
  /\ UNCHANGED <<capture_interval, is_capturing, capture_thread,
                 stop_capture_flag, last_capture_time,
                 background_capture_enabled, app_settings, config, booted,
                 manual, req>>
  /\ UNCHANGED <<waits, decision, search, exposure_settings, catalog>>

\* Loop head with the stop signal raised: leave the loop, log, end the thread.
WorkerExit(w) ==
  /\ worker[w].pc = "tick"
  /\ stop_capture_flag
  /\ capture_log' = Log(capture_log)
  /\ worker' = [worker EXCEPT ![w] = DeadWorker]
  /\ UNCHANGED <<capture_interval, is_capturing, capture_thread,
                 stop_capture_flag, last_capture_time,
                 background_capture_enabled, app_settings, config, booted,
                 manual, req>>
  /\ UNCHANGED <<waits, decision, search, exposure_settings, catalog>>

\* Loop head, window open: set the flag and enter run_single_capture, which
\* logs "Starting capture..." and spawns the capture subprocess.
WorkerCapture(w, period) ==
  /\ worker[w].pc = "tick"
  /\ ~stop_capture_flag
  /\ period \in PossiblePeriods(app_settings)
  /\ ShouldCapture(app_settings, period)
  /\ is_capturing' = TRUE
  /\ capture_log' = Log(capture_log)
  /\ worker' = [worker EXCEPT ![w].pc = "cap_run"]
  /\ UNCHANGED <<capture_interval, capture_thread, stop_capture_flag,
                 last_capture_time, background_capture_enabled, app_settings,
                 config, booted, manual, req>>
  /\ UNCHANGED <<waits, search, exposure_settings, catalog>>

\* Loop head, window open, but the subprocess cannot be spawned: the
\* exception is caught in run_single_capture, which logs it and returns False.
WorkerSpawnFail(w, period) ==
  /\ worker[w].pc = "tick"
  /\ ~stop_capture_flag
  /\ period \in PossiblePeriods(app_settings)
  /\ ShouldCapture(app_settings, period)
  /\ is_capturing' = FALSE
  /\ capture_log' = Log(Log(capture_log))
  /\ worker' = [worker EXCEPT ![w] = AfterCycle(capture_interval, "false")]
  /\ UNCHANGED <<capture_interval, capture_thread, stop_capture_flag,
                 last_capture_time, background_capture_enabled, app_settings,
                 config, booted, manual, req>>
  /\ UNCHANGED <<waits, search, exposure_settings, catalog>>

\* Loop head, window closed: clear the flag, log the reason, wait.
WorkerGated(w, period) ==
  /\ worker[w].pc = "tick"
  /\ ~stop_capture_flag
  /\ period \in PossiblePeriods(app_settings)
  /\ ~ShouldCapture(app_settings, period)
  /\ is_capturing' = FALSE
  /\ capture_log' = Log(capture_log)
  /\ worker' = [worker EXCEPT ![w] = AfterCycle(capture_interval, worker[w].success)]
  /\ UNCHANGED <<capture_interval, capture_thread, stop_capture_flag,
                 last_capture_time, background_capture_enabled, app_settings,
                 config, booted, manual, req>>
  /\ UNCHANGED <<waits, search, exposure_settings, catalog>>

\* One line of subprocess output: appended, and the log trimmed to 100.
WorkerOutput(w) ==
  /\ worker[w].pc = "cap_run"
  /\ capture_log' = LogTrim(capture_log)
  /\ UNCHANGED <<capture_interval, is_capturing, capture_thread,
                 stop_capture_flag, last_capture_time,
                 background_capture_enabled, app_settings, config, booted,
                 worker, manual, req>>
  /\ UNCHANGED <<waits, decision, search, exposure_settings, catalog>>

\* A loop in which a failed capture ends the thread.
WorkerFinish_FailureEndsLoop(w, rc) ==
  /\ worker[w].pc = "cap_run"
  /\ last_capture_time' = last_capture_time + 1
  /\ is_capturing' = FALSE
  /\ capture_log' = capture_log \o <<NextLine(capture_log), NextLine(capture_log) + 1>>
  /\ worker' = [worker EXCEPT ![w] =
       IF rc = 0
         THEN [pc |-> "sleep", left |-> capture_interval, success |-> "true"]
         ELSE [pc |-> "none", left |-> 0, success |-> "unset"]]
  /\ UNCHANGED <<capture_interval, capture_thread, stop_capture_flag,
                 background_capture_enabled, app_settings, config, booted,
                 manual, req>>
  /\ waits' = 0
  /\ UNCHANGED <<decision, search, exposure_settings, catalog>>

\* The subprocess ends with exit code rc: run_single_capture logs it and
\* stamps last_capture_time; the loop clears the flag, logs the outcome and
\* starts the interval wait.
WorkerFinish(w, rc) ==
  /\ worker[w].pc = "cap_run"
  /\ last_capture_time' = last_capture_time + 1
  /\ is_capturing' = FALSE
  /\ capture_log' = Log(Log(capture_log))
  /\ worker' = [worker EXCEPT ![w] =
       AfterCycle(capture_interval, IF rc = 0 THEN "true" ELSE "false")]
  /\ UNCHANGED <<capture_interval, capture_thread, stop_capture_flag,
                 background_capture_enabled, app_settings, config, booted,
                 manual, req>>
  /\ waits' = 0
  /\ UNCHANGED <<decision, search, exposure_settings, catalog>>

\* A wait loop that sleeps the whole interval without polling the signal.
WorkerSleep_IgnoresStop(w) ==
  /\ worker[w].pc = "sleep"
  /\ worker' =
       [worker EXCEPT ![w] =
          IF worker[w].left = 1
            THEN [worker[w] EXCEPT !.pc = "tick", !.left = 0]
            ELSE [worker[w] EXCEPT !.left = worker[w].left - 1]]
  /\ UNCHANGED <<capture_interval, is_capturing, capture_log, capture_thread,
                 stop_capture_flag, last_capture_time,
                 background_capture_enabled, app_settings, config, booted,
                 manual, req>>
  /\ waits' = IF waits = NoWaits \/ waits >= DefaultInterval THEN waits ELSE waits + 1
  /\ UNCHANGED <<decision, search, exposure_settings, catalog>>

\* The history of waits after one more time.sleep(1).
Waited ==
  IF waits = NoWaits \/ waits >= DefaultInterval THEN waits ELSE waits + 1

\* One pass of the wait loop: break when the stop signal is up, else sleep
\* one second; after the last second control is back at the loop head.
WorkerSleep(w) ==
  /\ worker[w].pc = "sleep"
  /\ worker' =
       [worker EXCEPT ![w] =
          IF stop_capture_flag \/ worker[w].left = 1
            THEN [worker[w] EXCEPT !.pc = "tick", !.left = 0]
            ELSE [worker[w] EXCEPT !.left = worker[w].left - 1]]
  /\ UNCHANGED <<globals, config, booted, manual, req>>
  /\ waits' = IF stop_capture_flag THEN waits ELSE Waited
  /\ UNCHANGED <<decision, search, exposure_settings, catalog>>

\* ------------------------------------------- manual capture (api_capture)

\* manual_capture(): set the flag and enter run_single_capture, which logs
\* "Starting capture..." and spawns the capture subprocess.
ManualBegin(m) ==
  /\ manual[m].pc = "new"
  /\ is_capturing' = TRUE
  /\ capture_log' = Log(capture_log)
  /\ manual' = [manual EXCEPT ![m].pc = "cap_run"]
  /\ UNCHANGED <<capture_interval, capture_thread, stop_capture_flag,
                 last_capture_time, background_capture_enabled, app_settings,
                 config, booted, worker, req>>
  /\ UNCHANGED <<waits, decision, search, exposure_settings, catalog>>

\* manual_capture() when the subprocess cannot be spawned: the exception is
\* logged in run_single_capture, the flag is cleared, the thread ends.
ManualSpawnFail(m) ==
  /\ manual[m].pc = "new"
  /\ is_capturing' = FALSE
  /\ capture_log' = Log(capture_log)
  /\ manual' = [manual EXCEPT ![m] = DeadManual]
  /\ UNCHANGED <<capture_interval, capture_thread, stop_capture_flag,
                 last_capture_time, background_capture_enabled, app_settings,
                 config, booted, worker, req>>
  /\ UNCHANGED <<waits, decision, search, exposure_settings, catalog>>

\* One line of subprocess output: appended, and the log trimmed to 100.
ManualOutput(m) ==
  /\ manual[m].pc = "cap_run"
  /\ capture_log' = LogTrim(capture_log)
  /\ UNCHANGED <<capture_interval, is_capturing, capture_thread,
                 stop_capture_flag, last_capture_time,
                 background_capture_enabled, app_settings, config, booted,
                 worker, manual, req>>
  /\ UNCHANGED <<waits, decision, search, exposure_settings, catalog>>

\* The subprocess ends: run_single_capture logs the exit code and stamps
\* last_capture_time; manual_capture clears the flag and the thread ends.
ManualFinish(m) ==
  /\ manual[m].pc = "cap_run"
  /\ last_capture_time' = last_capture_time + 1
  /\ is_capturing' = FALSE
  /\ capture_log' = Log(capture_log)
  /\ manual' = [manual EXCEPT ![m] = DeadManual]
  /\ UNCHANGED <<capture_interval, capture_thread, stop_capture_flag,
                 background_capture_enabled, app_settings, config, booted,
                 worker, req>>
  /\ UNCHANGED <<waits, decision, search, exposure_settings, catalog>>

\* A request that has returned `result`.
Returned(op, result) ==
  [op |-> op, pc |-> "idle", joined |-> NoThread, result |-> result]

\* A request that is at `pc`, waiting on thread `joined` if any.
Pending(op, pc, joined) ==
  [op |-> op, pc |-> pc, joined |-> joined, result |-> "pending"]

\* api_capture with the flag up: "Capture already in progress".
ApiCaptureBusy(h) ==
  /\ booted
  /\ req[h].pc = "idle"
  /\ is_capturing
  /\ req' = [req EXCEPT ![h] = Returned("TriggerOnce", "CaptureInProgress")]
  /\ UNCHANGED <<globals, config, booted, worker, manual>>
  /\ UNCHANGED <<waits, decision, search, exposure_settings, catalog>>

\* api_capture with an exposure that is not a number.
ApiCaptureBadExposure(h) ==
  /\ booted
  /\ req[h].pc = "idle"
  /\ ~is_capturing
  /\ req' = [req EXCEPT ![h] = Returned("TriggerOnce", "BadExposure")]
  /\ UNCHANGED <<globals, config, booted, worker, manual>>
  /\ UNCHANGED <<waits, decision, search, exposure_settings, catalog>>

\* api_capture that starts a manual capture without looking at the flag.
ApiCaptureLaunch_NoBusyCheck(h, exposure_ms) ==
  /\ booted
  /\ req[h].pc = "idle"
  /\ \E m \in Manuals :
       /\ FreeManual(m)
       /\ manual' = [manual EXCEPT ![m] = [pc |-> "new", exposure_ms |-> exposure_ms]]
  /\ req' = [req EXCEPT ![h] = Returned("TriggerOnce", "ManualStarted")]
  /\ UNCHANGED <<globals, config, booted, worker>>
  /\ UNCHANGED <<waits, decision, search, exposure_settings, catalog>>

\* api_capture with the flag down: start a manual_capture thread and return.
ApiCaptureLaunch(h, exposure_ms) ==
  /\ booted
  /\ req[h].pc = "idle"
  /\ ~is_capturing
  /\ \E m \in Manuals :
       /\ FreeManual(m)
       /\ manual' = [manual EXCEPT ![m] = [pc |-> "new", exposure_ms |-> exposure_ms]]
  /\ req' = [req EXCEPT ![h] = Returned("TriggerOnce", "ManualStarted")]
  /\ UNCHANGED <<globals, config, booted, worker>>
  /\ UNCHANGED <<waits, decision, search, exposure_settings, catalog>>

\* ------------------------------------------- start_background_capture

\* The liveness check finds a live worker: return False, change nothing.
StartReject(h, op, result) ==
  /\ CaptureThreadAlive
  /\ req' = [req EXCEPT ![h] = Returned(op, result)]
  /\ UNCHANGED <<globals, config, booted, worker, manual>>
  /\ UNCHANGED <<waits, decision, search, exposure_settings, catalog>>

\* start_background_capture() without its liveness check.
StartPass_NoLivenessCheck(h, op) ==
  /\ req' = [req EXCEPT ![h] = Pending(op, "start_launch", NoThread)]
  /\ UNCHANGED <<globals, config, booted, worker, manual>>
  /\ UNCHANGED <<waits, decision, search, exposure_settings, catalog>>

\* The liveness check finds no live worker: go on to launch one.
StartPass(h, op) ==
  /\ ~CaptureThreadAlive
  /\ req' = [req EXCEPT ![h] = Pending(op, "start_launch", NoThread)]
  /\ UNCHANGED <<globals, config, booted, worker, manual>>
  /\ UNCHANGED <<waits, decision, search, exposure_settings, catalog>>

\* api_start_background: the call of start_background_capture().
ApiStart(h) ==
  /\ booted
  /\ req[h].pc = "idle"
  /\ \/ StartReject(h, "Start", "AlreadyRunning")
     \/ StartPass(h, "Start")

\* start_background_capture() past the check, to its return.
StartLaunch(h) ==
  /\ req[h].pc = "start_launch"
  /\ LaunchWorker(app_settings, capture_interval)
  /\ req' = [req EXCEPT ![h] =
       Returned(req[h].op,
                IF req[h].op = "Start" THEN "Started" ELSE "IntervalRestarted")]
  /\ UNCHANGED <<capture_interval, is_capturing, capture_log,
                 last_capture_time, app_settings, booted, manual>>
  /\ UNCHANGED <<waits, decision, search, exposure_settings, catalog>>

\* -------------------------------------------- stop_background_capture

\* No live worker: clear the intent, save, return False.  Inside
\* api_set_interval the handler goes on to its one-second sleep.
StopNotRunning(h, op, interval) ==
  /\ ~CaptureThreadAlive
  /\ background_capture_enabled' = FALSE
  /\ config' = SaveConfig(app_settings, interval, FALSE)
  /\ req' = [req EXCEPT ![h] =
       IF op = "Stop" THEN Returned(op, "NotRunning")
       ELSE Pending(op, "si_sleep", NoThread)]
  /\ UNCHANGED <<is_capturing, capture_log, capture_thread, stop_capture_flag,
                 last_capture_time, app_settings, booted, worker, manual>>
  /\ UNCHANGED <<waits, decision, search, exposure_settings, catalog>>

\* stop_background_capture() that signals the worker and keeps the intent.
StopSignal_KeepIntent(h, op) ==
  /\ CaptureThreadAlive
  /\ stop_capture_flag' = TRUE
  /\ capture_log' = Log(capture_log)
  /\ req' = [req EXCEPT ![h] = Pending(op, "stop_join", capture_thread)]
  /\ UNCHANGED <<is_capturing, capture_thread, last_capture_time,
                 background_capture_enabled, app_settings, booted, worker,
                 manual>>
  /\ UNCHANGED <<waits, decision, search, exposure_settings, catalog>>

\* A live worker: raise the stop signal, clear the intent, log, and wait in
\* capture_thread.join(timeout=5).
StopSignal(h, op) ==
  /\ CaptureThreadAlive
  /\ stop_capture_flag' = TRUE
  /\ background_capture_enabled' = FALSE
  /\ capture_log' = Log(capture_log)
  /\ req' = [req EXCEPT ![h] = Pending(op, "stop_join", capture_thread)]
  /\ UNCHANGED <<is_capturing, capture_thread, last_capture_time,
                 app_settings, booted, worker, manual>>
  /\ UNCHANGED <<waits, decision, search, exposure_settings, catalog>>

\* api_stop_background: the call of stop_background_capture().
ApiStop(h) ==
  /\ booted
  /\ req[h].pc = "idle"
  /\ \/ StopNotRunning(h, "Stop", capture_interval) /\ UNCHANGED capture_interval
     \/ StopSignal(h, "Stop") /\ UNCHANGED <<capture_interval, config>>

\* After the join: save the configuration and return True.
StopReturn(h) ==
  /\ config' = SaveConfig(app_settings, capture_interval, background_capture_enabled)
  /\ req' = [req EXCEPT ![h] =
       IF req[h].op = "Stop" THEN Returned("Stop", "Stopped")
       ELSE Pending(req[h].op, "si_sleep", NoThread)]
  /\ UNCHANGED <<globals, booted, worker, manual>>
  /\ UNCHANGED <<waits, decision, search, exposure_settings, catalog>>

\* join() returns because the worker thread has ended.
StopJoined(h) ==
  /\ req[h].pc = "stop_join"
  /\ ~Alive(req[h].joined)
  /\ StopReturn(h)

\* join() gives up after its five seconds: the worker is still inside an
\* acquisition, which can last longer than that.
StopJoinTimeout(h) ==
  /\ req[h].pc = "stop_join"
  /\ WorkerInFlight(req[h].joined)
  /\ StopReturn(h)

\* ---------------------------------------------------- api_set_interval

\* new_interval < 30: the validation error.
SetIntervalReject(h, n) ==
  /\ booted
  /\ req[h].pc = "idle"
  /\ n < MinInterval
  /\ req' = [req EXCEPT ![h] = Returned("SetInterval", "IntervalRejected")]
  /\ UNCHANGED <<globals, config, booted, worker, manual>>
  /\ UNCHANGED <<waits, decision, search, exposure_settings, catalog>>

\* int() raises ValueError: "Invalid interval value".
SetIntervalInvalid(h) ==
  /\ booted
  /\ req[h].pc = "idle"
  /\ req' = [req EXCEPT ![h] = Returned("SetInterval", "InvalidInterval")]
  /\ UNCHANGED <<globals, config, booted, worker, manual>>
  /\ UNCHANGED <<waits, decision, search, exposure_settings, catalog>>

\* api_set_interval without its lower bound.
SetIntervalIdle_NoMinimum(h, n) ==
  /\ booted
  /\ req[h].pc = "idle"
  /\ ~background_capture_enabled
  /\ capture_interval' = n
  /\ config' = SaveConfig(app_settings, n, background_capture_enabled)
  /\ req' = [req EXCEPT ![h] = Returned("SetInterval", "IntervalUpdated")]
  /\ UNCHANGED <<is_capturing, capture_log, capture_thread, stop_capture_flag,
                 last_capture_time, background_capture_enabled, app_settings,
                 booted, worker, manual>>
  /\ UNCHANGED <<waits, decision, search, exposure_settings, catalog>>

\* A valid interval with no run intent: store it, save, return.
SetIntervalIdle(h, n) ==
  /\ booted
  /\ req[h].pc = "idle"
  /\ n >= MinInterval
  /\ ~background_capture_enabled
  /\ capture_interval' = n
  /\ config' = SaveConfig(app_settings, n, background_capture_enabled)
  /\ req' = [req EXCEPT ![h] = Returned("SetInterval", "IntervalUpdated")]
  /\ UNCHANGED <<is_capturing, capture_log, capture_thread, stop_capture_flag,
                 last_capture_time, background_capture_enabled, app_settings,
                 booted, worker, manual>>
  /\ UNCHANGED <<waits, decision, search, exposure_settings, catalog>>

\* A valid interval with the run intent set: store it, save, and call
\* stop_background_capture().
SetIntervalRestart(h, n) ==
  /\ booted
  /\ req[h].pc = "idle"
  /\ n >= MinInterval
  /\ background_capture_enabled
  /\ capture_interval' = n
  /\ \/ StopNotRunning(h, "SetInterval", n)
     \/ StopSignal(h, "SetInterval") /\ config' = SaveConfig(app_settings, n, TRUE)

\* After time.sleep(1): the call of start_background_capture().
SetIntervalStart(h) ==
  /\ req[h].pc = "si_sleep"
  /\ \/ StartReject(h, "SetInterval", "IntervalRestarted")
     \/ StartPass(h, "SetInterval")

\* ------------------------------------------------------------ environment

\* Exit codes of the capture subprocess: success and failure.
ExitCodes == {0, 1}
\* Intervals a client posts: two below the minimum, the minimum itself.
IntervalInputs == {10, MinInterval - 1, MinInterval}
\* Exposure overrides a client posts: none, and a value in milliseconds.
ExposureInputs == {NoExposure, 5000}

\* The log is short enough for the environment to start something new.
Fuel == Len(capture_log) < MaxLog

\* One step of worker thread w.
WorkerStep(w) ==
  \/ WorkerBegin(w)
  \/ WorkerExit(w)
  \/ \E period \in Periods : Fuel /\ WorkerCapture(w, period) /\ UNCHANGED decision
  \/ \E period \in Periods : Fuel /\ WorkerSpawnFail(w, period) /\ UNCHANGED decision
  \/ \E period \in Periods : Fuel /\ WorkerGated(w, period) /\ UNCHANGED decision
  \/ Fuel /\ WorkerOutput(w)
  \/ \E rc \in ExitCodes : WorkerFinish(w, rc)
  \/ WorkerSleep(w)

\* One step of manual-capture thread m.
ManualStep(m) ==
  \/ ManualBegin(m)
  \/ ManualSpawnFail(m)
  \/ Fuel /\ ManualOutput(m)
  \/ ManualFinish(m)

\* A request arrives at handler h.
RequestArrives(h) ==
  \/ Fuel /\ ApiStart(h)
  \/ Fuel /\ ApiStop(h)
  \/ Fuel /\ ApiCaptureBusy(h)
  \/ Fuel /\ ApiCaptureBadExposure(h)
  \/ \E e \in ExposureInputs : Fuel /\ ApiCaptureLaunch(h, e)
  \/ \E n \in IntervalInputs : Fuel /\ SetIntervalReject(h, n)
  \/ Fuel /\ SetIntervalInvalid(h)
  \/ \E n \in IntervalInputs : Fuel /\ SetIntervalIdle(h, n)
  \/ \E n \in IntervalInputs : Fuel /\ SetIntervalRestart(h, n)

\* A request in progress at handler h takes its next step.
RequestContinues(h) ==
  \/ StartLaunch(h)
  \/ StopJoined(h)
  \/ StopJoinTimeout(h)
  \/ SetIntervalStart(h)

\* Requests are served one at a time (a single synchronous server worker).
SerialHandlers == {1}

Next ==
  \/ Startup
  \/ Restart
  \/ \E w \in Workers : WorkerStep(w)
  \/ \E m \in Manuals : ManualStep(m)
  \/ \E h \in SerialHandlers : RequestArrives(h)
  \/ \E h \in SerialHandlers : RequestContinues(h)

Spec == Init /\ [][Next]_vars

\* An installation whose interval has never been set: no configuration file,
\* or one saved by the settings page or by Start/Stop, which holds the
\* default interval.
InitFresh ==
  /\ InitGlobals
  /\ config \in {NoConfig} \cup
       {SaveConfig(s, DefaultInterval, e) : s \in SettingsChoices, e \in BOOLEAN}

SpecFresh == InitFresh /\ [][Next]_vars

\* The scheduler under fair scheduling: a thread that can take a step is not
\* held back for ever, and every capture subprocess ends.
Fairness ==
  \A w \in Workers :
    /\ WF_vars(WorkerStep(w))
    /\ WF_vars(\E rc \in ExitCodes : WorkerFinish(w, rc))

SpecFair == Spec /\ Fairness

\* A long-running worker: the configuration file holds the run intent, and
\* the log is followed over more appends than it has room for.
InitLog ==
  /\ InitGlobals
  /\ config \in {SaveConfig(s, CfgInterval, TRUE) : s \in SettingsChoices}

\* Lines are still to be written.
LogFuel == NextLine(capture_log) <= LogCap + MaxOverflow

NextLog ==
  \/ Startup
  \/ \E w \in Workers : WorkerBegin(w)
  \/ \E w \in Workers, period \in Periods : LogFuel /\ WorkerCapture(w, period) /\ UNCHANGED decision
  \/ \E w \in Workers, period \in Periods : LogFuel /\ WorkerGated(w, period) /\ UNCHANGED decision
  \/ \E w \in Workers : LogFuel /\ WorkerOutput(w)
  \/ \E w \in Workers, rc \in ExitCodes : WorkerFinish(w, rc)
  \/ \E w \in Workers : WorkerSleep(w)

SpecLog == InitLog /\ [][NextLog]_vars

\* ---- the scheduling decision of a tick, with the sun and the clock as inputs

\* Window policies and sites a configuration file may hold.
TwilightSettings ==
  [located : BOOLEAN, capture_daytime : BOOLEAN,
   capture_civil_twilight : BOOLEAN, capture_nautical_twilight : BOOLEAN,
   capture_astronomical_darkness : BOOLEAN]

\* Solar noon on the local clock: 12:00, 13:00 and 18:00.
SolarNoons == {48, 52, 72}
\* Half the length of the day: 2 h, 6 h, 10.5 h, 11.5 h.
HalfDays == {8, 24, 42, 46}
\* What calculate_sunrise_sunset() can return.
Suns ==
  {PolarNight, MidnightSun} \cup
  {SunTimes(noon, half) : noon \in SolarNoons, half \in HalfDays}
\* now.hour + now.minute / 60
Clock == 0..(Day - 1)

InitTwilight ==
  /\ InitGlobals
  /\ config \in {SaveConfig(s, CfgInterval, TRUE) : s \in TwilightSettings}

\* The worker is followed through its first scheduling decision.
TwilightFuel == decision = NoDecision

\* The loop head of worker w with the sun and the clock given: the period is
\* resolved, and the tick captures or is gated.
TwilightTick(w, sun, now) ==
  LET period == GetCurrentTwilightPeriod(app_settings, sun, now)
  IN  /\ \/ WorkerCapture(w, period)
         \/ WorkerSpawnFail(w, period)
         \/ WorkerGated(w, period)
      /\ decision' =
           [kind |-> sun.kind, sunrise |-> sun.sunrise, sunset |-> sun.sunset,
            now |-> now, period |-> period]

NextTwilight ==
  \/ Startup
  \/ \E w \in Workers : WorkerBegin(w)
  \/ /\ TwilightFuel
     /\ \E w \in Workers, sun \in Suns, now \in Clock : TwilightTick(w, sun, now)
  \/ \E w \in Workers, rc \in ExitCodes : WorkerFinish(w, rc)
  \/ \E w \in Workers : WorkerSleep(w)

SpecTwilight == InitTwilight /\ [][NextTwilight]_vars

\* A resumed worker that is stopped, started and re-timed between its cycles.
CycleFuel == Len(capture_log) < MaxCycleLog

NextCycle ==
  \/ Startup
  \/ \E w \in Workers : WorkerBegin(w)
  \/ \E w \in Workers : WorkerExit(w)
  \/ \E w \in Workers, period \in Periods : CycleFuel /\ WorkerCapture(w, period) /\ UNCHANGED decision
  \/ \E w \in Workers, rc \in ExitCodes : WorkerFinish(w, rc)
  \/ \E w \in Workers : WorkerSleep(w)
  \/ \E h \in SerialHandlers : CycleFuel /\ ApiStop(h)
  \/ \E h \in SerialHandlers : CycleFuel /\ ApiStart(h)
  \/ \E h \in SerialHandlers, n \in IntervalInputs :
       CycleFuel /\ SetIntervalRestart(h, n)
  \/ \E h \in SerialHandlers : RequestContinues(h)

SpecCycle == InitLog /\ [][NextCycle]_vars

\* Requests served concurrently: app.run() serves each request on a thread of
\* its own, so the handlers of Start, Stop and SetInterval interleave with
\* each other and with the workers at every step.
\* An installation whose configuration file holds a short interval.
InitRace ==
  /\ InitGlobals
  /\ config \in {SaveConfig(s, CfgInterval, e) : s \in SettingsChoices, e \in BOOLEAN}

\* The log is short enough for a request to arrive or a capture to begin.
RaceFuel == Len(capture_log) < MaxRaceLog

NextRace ==
  \/ Startup
  \/ \E w \in Workers : WorkerBegin(w)
  \/ \E w \in Workers : WorkerExit(w)
  \/ \E w \in Workers, period \in Periods : RaceFuel /\ WorkerCapture(w, period) /\ UNCHANGED decision
  \/ \E w \in Workers, rc \in ExitCodes : WorkerFinish(w, rc)
  \/ \E w \in Workers : WorkerSleep(w)
  \/ \E h \in Handlers : RaceFuel /\ ApiStart(h)
  \/ \E h \in Handlers : RaceFuel /\ ApiStop(h)
  \/ \E h \in Handlers, n \in IntervalInputs : RaceFuel /\ SetIntervalRestart(h, n)
  \/ \E h \in Handlers : RequestContinues(h)

SpecRace == InitRace /\ [][NextRace]_vars

\* ------------------------------------ image_capture.py: the exposure search

\* Exposures are counted in half milliseconds (the finest refinement step).
\* coarse_steps, in milliseconds.
CoarseSteps == <<1, 10, 20, 50, 100, 200, 500, 1000, 2000, 5000, 10000, 20000, 30000>>
\* max(100, ...)
MaxExposureFloor == 100
\* tolerance = 0.15, as TolerancePercent / 100
TolerancePercent == 15

Abs(x) == IF x < 0 THEN -x ELSE x
Min(a, b) == IF a < b THEN a ELSE b
Max(a, b) == IF a > b THEN a ELSE b

\* The exposure keys of the configuration file: each may be missing (no
\* file, no such key, or a value int() rejects).
ExposureConfig(has_min, min_exposure_ms, has_max, max_exposure_ms) ==
  [has_min |-> has_min, min_exposure_ms |-> min_exposure_ms,
   has_max |-> has_max, max_exposure_ms |-> max_exposure_ms]

\* load_exposure_config() that leaves the fallback at its module default.
LoadExposureConfig_FallbackDefault(cfg) ==
  [MIN_EXPOSURE_MS |-> IF cfg.has_min
                         THEN Max(DefaultMinExposure, cfg.min_exposure_ms)
                         ELSE DefaultMinExposure,
   MAX_EXPOSURE_MS |-> IF cfg.has_max
                         THEN Max(MaxExposureFloor, cfg.max_exposure_ms)
                         ELSE DefaultMaxExposure,
   FALLBACK_EXPOSURE_MS |-> DefaultMaxExposure]

\* load_exposure_config(): the three globals after the call.
LoadExposureConfig(cfg) ==
  LET max_ms == IF cfg.has_max
                  THEN Max(MaxExposureFloor, cfg.max_exposure_ms)
                  ELSE DefaultMaxExposure
  IN  [MIN_EXPOSURE_MS |-> IF cfg.has_min
                             THEN Max(DefaultMinExposure, cfg.min_exposure_ms)
                             ELSE DefaultMinExposure,
       MAX_EXPOSURE_MS |-> max_ms,
       FALLBACK_EXPOSURE_MS |-> max_ms]

\* [e for e in coarse_steps if MIN_EXPOSURE_MS <= e <= MAX_EXPOSURE_MS], in
\* half milliseconds.
InBounds(lo, hi, e) == lo <= e /\ e <= hi
CoarseLadder(lo, hi) ==
  LET kept == SelectSeq(CoarseSteps, LAMBDA e : InBounds(lo, hi, e))
  IN  [i \in 1..Len(kept) |-> 2 * kept[i]]

\* list(range(start, stop, step)) for a positive step.
Range(start, stop, step) ==
  IF stop <= start THEN <<>>
  ELSE [i \in 1..((stop - start + step - 1) \div step) |-> start + (i - 1) * step]

\* refine_steps whose test loop skips no candidate: the lower bound itself is
\* tried again.
RefineSteps_KeepsBounds(lower2, upper2) ==
  LET lower == lower2 \div 2
      upper == upper2 \div 2
      diff == upper - lower
  IN  IF diff > 100
        THEN LET r == Range(lower, upper, Min(10, diff \div 10))
             IN  [i \in 1..Len(r) |-> 2 * r[i]]
      ELSE IF diff > 10
        THEN LET r == Range(lower, upper, 1)
             IN  [i \in 1..Len(r) |-> 2 * r[i]]
      ELSE [i \in 1..(2 * diff - 1) |-> lower2 + i]

\* refine_steps between the two bounds (given in half milliseconds), less the
\* candidates the test loop skips (those not strictly between the bounds).
RefineSteps(lower2, upper2) ==
  LET lower == lower2 \div 2
      upper == upper2 \div 2
      diff == upper - lower
      steps ==
        IF diff > 100
          THEN LET r == Range(lower, upper, Min(10, diff \div 10))
               IN  [i \in 1..Len(r) |-> 2 * r[i]]
        ELSE IF diff > 10
          THEN LET r == Range(lower, upper, 1)
               IN  [i \in 1..Len(r) |-> 2 * r[i]]
        ELSE [i \in 1..(2 * diff - 1) |-> lower2 + i]
  IN  SelectSeq(steps, LAMBDA e : ~(e <= lower2 \/ e >= upper2))

\* Brightness is counted in half ADU.  abs(mean_adu / target_adu - 1.0), as
\* twice the distance of the brightness m2 from the target.
RatioDiff(m2, target) == Abs(m2 - 2 * target)

\* ratio_diff < tolerance
Accepted(m2, target) == RatioDiff(m2, target) * 100 < TolerancePercent * 2 * target

\* mean_adu < target_adu
BelowTarget(m2, target) == m2 < 2 * target

\* The linear mock acquisition: brightness k * e for an exposure of e
\* milliseconds, e2 being the exposure in half milliseconds.
Err(k, target, e2) == RatioDiff(k * e2, target)
WithinTolerance(k, target, e2) == Accepted(k * e2, target)
TooDark(k, target, e2) == BelowTarget(k * e2, target)

\* The scripted mock acquisition: the trials follow sr.script cyclically, each
\* entry a failure (NoAdu) or a brightness in percent of the target.
Scripted(sr) == sr.script[(Len(sr.tested) % Len(sr.script)) + 1]

\* test_exposure() fails (configuration error, no image after the retries, or
\* no brightness) and returns None.
TrialFails(sr) ==
  \/ sr.fails = "always"
  \/ sr.script # <<>> /\ Scripted(sr) = NoAdu

\* mean_adu of the trial at exposure e2, in half ADU.
MeanAdu(sr, e2) ==
  IF TrialFails(sr) THEN NoAdu
  ELSE IF sr.script # <<>> THEN (2 * sr.target_adu * Scripted(sr)) \div 100
  ELSE sr.k * e2

\* test_exposure() where a trial as good as the best result replaces it.
AfterTrial_NonStrict(sr, e2) ==
  LET err == RatioDiff(MeanAdu(sr, e2), sr.target_adu)
      better == sr.best_exposure = NoBound \/ err <= sr.best_err
      t == [sr EXCEPT !.tested = Append(@, e2),
                      !.adu = Append(@, MeanAdu(sr, e2))]
  IN  IF TrialFails(sr)
        THEN t
        ELSE [t EXCEPT !.best_exposure = IF better THEN e2 ELSE @,
                       !.best_err = IF better THEN err ELSE @]

\* test_exposure() where every successful trial replaces the best result.
AfterTrial_LastWins(sr, e2) ==
  LET t == [sr EXCEPT !.tested = Append(@, e2),
                      !.adu = Append(@, MeanAdu(sr, e2))]
  IN  IF TrialFails(sr)
        THEN t
        ELSE [t EXCEPT !.best_exposure = e2,
                       !.best_err = RatioDiff(MeanAdu(sr, e2), sr.target_adu)]

\* test_exposure(): the trial is recorded, and a successful one replaces the
\* best result on a strict improvement.
AfterTrial(sr, e2) ==
  LET err == RatioDiff(MeanAdu(sr, e2), sr.target_adu)
      better == sr.best_exposure = NoBound \/ err < sr.best_err
      t == [sr EXCEPT !.tested = Append(@, e2),
                      !.adu = Append(@, MeanAdu(sr, e2))]
  IN  IF TrialFails(sr)
        THEN t
        ELSE [t EXCEPT !.best_exposure = IF better THEN e2 ELSE @,
                       !.best_err = IF better THEN err ELSE @]

\* return exposure_ms
Found(sr, e2) ==
  [sr EXCEPT !.pc = "done", !.result = e2, !.outcome = "WithinTolerance"]

SearchFrame ==
  UNCHANGED <<globals, config, booted, worker, manual, req, waits, decision,
              exposure_settings, catalog>>

\* main(): load_exposure_config(), then find_optimal_exposure() up to the
\* list of coarse steps.
SearchBegin(cfg, target, k, fails, script) ==
  /\ search.pc = "none"
  /\ LET b == LoadExposureConfig(cfg)
     IN  search' =
           [NoSearch EXCEPT
              !.pc = "phase1",
              !.MIN_EXPOSURE_MS = b.MIN_EXPOSURE_MS,
              !.MAX_EXPOSURE_MS = b.MAX_EXPOSURE_MS,
              !.FALLBACK_EXPOSURE_MS = b.FALLBACK_EXPOSURE_MS,
              !.target_adu = target, !.k = k, !.fails = fails,
              !.script = script,
              !.todo = CoarseLadder(b.MIN_EXPOSURE_MS, b.MAX_EXPOSURE_MS)]
  /\ SearchFrame

\* A coarse walk that a failed trial ends.
CoarseTrial_FailureAborts ==
  /\ search.pc = "phase1"
  /\ search.todo # <<>>
  /\ LET e2 == Head(search.todo)
         rest == Tail(search.todo)
         mean_adu == MeanAdu(search, e2)
         t == AfterTrial(search, e2)
     IN  search' =
           IF TrialFails(search) THEN [t EXCEPT !.todo = <<>>]
           ELSE IF Accepted(mean_adu, search.target_adu)
             THEN Found(t, e2)
           ELSE IF BelowTarget(mean_adu, search.target_adu)
             THEN [t EXCEPT !.todo = rest, !.lower_bound = e2]
           ELSE [t EXCEPT !.upper_bound = e2,
                          !.todo = IF search.lower_bound # NoBound
                                     THEN <<>> ELSE rest]
  /\ SearchFrame

\* Phase 1, one coarse step: a failed trial is skipped, a trial within
\* tolerance is returned, any other moves a bound; the walk breaks when a
\* too-bright trial finds the lower bound known.
CoarseTrial ==
  /\ search.pc = "phase1"
  /\ search.todo # <<>>
  /\ LET e2 == Head(search.todo)
         rest == Tail(search.todo)
         mean_adu == MeanAdu(search, e2)
         t == AfterTrial(search, e2)
     IN  search' =
           IF TrialFails(search) THEN [t EXCEPT !.todo = rest]
           ELSE IF Accepted(mean_adu, search.target_adu)
             THEN Found(t, e2)
           ELSE IF BelowTarget(mean_adu, search.target_adu)
             THEN [t EXCEPT !.todo = rest, !.lower_bound = e2]
           ELSE [t EXCEPT !.upper_bound = e2,
                          !.todo = IF search.lower_bound # NoBound
                                     THEN <<>> ELSE rest]
  /\ SearchFrame

\* A search whose second phase tries nothing.
RefineBegin_NoSteps ==
  /\ search.pc = "phase1"
  /\ search.todo = <<>>
  /\ search.lower_bound # NoBound /\ search.upper_bound # NoBound
  /\ search' = [search EXCEPT !.pc = "phase2"]
  /\ SearchFrame

\* The coarse walk has ended with both bounds: build the refinement steps.
RefineBegin ==
  /\ search.pc = "phase1"
  /\ search.todo = <<>>
  /\ search.lower_bound # NoBound /\ search.upper_bound # NoBound
  /\ search' = [search EXCEPT
       !.pc = "phase2",
       !.todo = RefineSteps(search.lower_bound, search.upper_bound)]
  /\ SearchFrame

\* A refinement step that records a trial within tolerance and goes on.
RefineTrial_NoReturn ==
  /\ search.pc = "phase2"
  /\ search.todo # <<>>
  /\ search' = [AfterTrial(search, Head(search.todo)) EXCEPT
                  !.todo = Tail(search.todo)]
  /\ SearchFrame

\* Phase 2, one refinement step.
RefineTrial ==
  /\ search.pc = "phase2"
  /\ search.todo # <<>>
  /\ LET e2 == Head(search.todo)
         t == AfterTrial(search, e2)
     IN  search' =
           IF ~TrialFails(search)
              /\ Accepted(MeanAdu(search, e2), search.target_adu)
             THEN Found(t, e2)
             ELSE [t EXCEPT !.todo = Tail(search.todo)]
  /\ SearchFrame

\* Both phases are over and nothing was within tolerance.
Exhausted ==
  /\ search.todo = <<>>
  /\ \/ search.pc = "phase2"
     \/ /\ search.pc = "phase1"
        /\ search.lower_bound = NoBound \/ search.upper_bound = NoBound

\* return best_exposure
ReturnBest ==
  /\ Exhausted
  /\ search.best_exposure # NoBound
  /\ search' = [search EXCEPT !.pc = "done", !.result = search.best_exposure,
                              !.outcome = "BestEffort"]
  /\ SearchFrame

\* A search that returns None when every trial failed.
ReturnFallback_ReturnsNone ==
  /\ Exhausted
  /\ search.best_exposure = NoBound
  /\ search' = [search EXCEPT !.pc = "done", !.result = NoBound,
                              !.outcome = "Fallback"]
  /\ SearchFrame

\* return FALLBACK_EXPOSURE_MS
ReturnFallback ==
  /\ Exhausted
  /\ search.best_exposure = NoBound
  /\ search' = [search EXCEPT !.pc = "done",
                              !.result = 2 * search.FALLBACK_EXPOSURE_MS,
                              !.outcome = "Fallback"]
  /\ SearchFrame

\* fallback_exposure = 1000, in milliseconds.
FallbackFinalExposure == 1000

\* capture_final_image(exposure): configure_camera() raises, or the
\* acquisition is made and gives an image or none.
CaptureFinalImage(sr, e2, img) ==
  IF img = "raises" THEN [sr EXCEPT !.pc = "exit", !.status = "error"]
  ELSE IF img = "image"
    THEN [sr EXCEPT !.pc = "exit", !.status = "success",
                    !.finals = Append(@, e2)]
  ELSE [sr EXCEPT !.finals = Append(@, e2)]

\* main(): the final image at the exposure the search returned; with no image
\* the capture is tried once more.
FinalCapture(img) ==
  /\ search.pc = "done"
  /\ LET t == CaptureFinalImage(search, search.result, img)
     IN  search' = IF img = "none" THEN [t EXCEPT !.pc = "retry"] ELSE t
  /\ SearchFrame

\* main(): the second final capture, at fallback_exposure.
FallbackCapture(img) ==
  /\ search.pc = "retry"
  /\ LET t == CaptureFinalImage(search, 2 * FallbackFinalExposure, img)
     IN  search' = IF img = "none"
                     THEN [t EXCEPT !.pc = "exit", !.status = "failed"]
                     ELSE t
  /\ SearchFrame

\* The capture process ends; the next capture starts a new search.
SearchEnd ==
  /\ search.pc = "exit"
  /\ search' = NoSearch
  /\ SearchFrame

\* Exposure keys a configuration file holds.
ExposureConfigs ==
  {ExposureConfig(FALSE, 0, FALSE, 0), ExposureConfig(TRUE, 15, FALSE, 0)} \cup
  {ExposureConfig(TRUE, lo, TRUE, hi) : lo \in {0, 1, 15, 200}, hi \in {50, 100, 500}}
\* The linear mock camera: ADU per millisecond, and whether every trial fails.
MockSlopes == {1, 4}
MockFailures == {"never", "always"}
\* Target brightness in ADU.
Targets == {2, 5, 30, 64, 330, 1000}
\* The scripted mock: a trial fails, or is 50% or 20% too dark, 10% too
\* bright (within tolerance), or 20% too bright.
ScriptLevels == {NoAdu, 50, 80, 110, 120}
MaxScript == 3
Scripts == UNION {[1..n -> ScriptLevels] : n \in 1..MaxScript}
ScriptTarget == 1000
\* What a final capture gives.
FinalOutcomes == {"image", "none", "raises"}
\* Exposure keys the scripted searches run under.
ScriptConfigs ==
  {ExposureConfig(FALSE, 0, FALSE, 0), ExposureConfig(TRUE, 15, TRUE, 100),
   ExposureConfig(TRUE, 200, TRUE, 500)}

NextSearch ==
  \/ \E cfg \in ExposureConfigs, target \in Targets, k \in MockSlopes,
        fails \in MockFailures : SearchBegin(cfg, target, k, fails, <<>>)
  \/ \E cfg \in ScriptConfigs, script \in Scripts :
        SearchBegin(cfg, ScriptTarget, 0, "scripted", script)
  \/ CoarseTrial
  \/ RefineBegin
  \/ RefineTrial
  \/ ReturnBest
  \/ ReturnFallback
  \/ \E img \in FinalOutcomes : FinalCapture(img)
  \/ \E img \in FinalOutcomes : FallbackCapture(img)
  \/ SearchEnd

InitSearch == InitGlobals /\ config = NoConfig

SpecSearch == InitSearch /\ [][NextSearch]_vars

\* The capture process is a sequential program that keeps running: a search
\* step that can be taken is taken.
SpecSearchFair == SpecSearch /\ WF_vars(NextSearch)

\* ----------------------- a manual capture and the capture process it spawns

\* run_single_capture(exposure_ms): the arguments after the script path.
Command(exposure_ms) ==
  IF exposure_ms = NoExposure THEN <<>> ELSE <<"--exposure", exposure_ms>>

\* subprocess.Popen(cmd) of manual thread m: the capture process starts with
\* the command line in sys.argv; main() loads the exposure limits and begins
\* the search, and reads no argument.
ManualProcess(m, cfg, target, k, fails) ==
  /\ manual[m].pc = "cap_run"
  /\ search.pc = "none"
  /\ LET b == LoadExposureConfig(cfg)
     IN  search' =
           [NoSearch EXCEPT
              !.pc = "phase1",
              !.MIN_EXPOSURE_MS = b.MIN_EXPOSURE_MS,
              !.MAX_EXPOSURE_MS = b.MAX_EXPOSURE_MS,
              !.FALLBACK_EXPOSURE_MS = b.FALLBACK_EXPOSURE_MS,
              !.target_adu = target, !.k = k, !.fails = fails,
              !.todo = CoarseLadder(b.MIN_EXPOSURE_MS, b.MAX_EXPOSURE_MS),
              !.argv = Command(manual[m].exposure_ms)]
  /\ SearchFrame

\* process.wait() of manual thread m returns: the capture process has ended.
ManualProcessEnds(m) ==
  /\ search.pc = "exit"
  /\ ManualFinish(m)

\* The manual thread is gone; the next capture starts a new process.
ManualProcessGone ==
  /\ \A m \in Manuals : manual[m].pc # "cap_run"
  /\ SearchEnd

\* Manual captures are requested while the log is shorter than this.
TriggerFuel == Len(capture_log) < MaxTriggerLog

NextTrigger ==
  \/ Startup
  \/ \E h \in SerialHandlers, e \in ExposureInputs :
        TriggerFuel /\ ApiCaptureLaunch(h, e)
  \/ \E h \in SerialHandlers : ApiCaptureBusy(h)
  \/ \E m \in Manuals : ManualBegin(m)
  \/ \E m \in Manuals, cfg \in ScriptConfigs, target \in Targets,
        k \in MockSlopes, fails \in MockFailures :
        ManualProcess(m, cfg, target, k, fails)
  \/ CoarseTrial
  \/ RefineBegin
  \/ RefineTrial
  \/ ReturnBest
  \/ ReturnFallback
  \/ \E img \in FinalOutcomes : FinalCapture(img)
  \/ \E img \in FinalOutcomes : FallbackCapture(img)
  \/ \E m \in Manuals : ManualProcessEnds(m)
  \/ ManualProcessGone

SpecTrigger == InitSearch /\ [][NextTrigger]_vars

\* ------------------------------------------------- the exposure limits

SettingsFrame ==
  UNCHANGED <<globals, config, booted, worker, manual, req, waits, decision,
              search, catalog>>

\* save_config(): both exposure keys are written from app_settings.
SavedExposure(app) ==
  ExposureConfig(TRUE, app.min_exposure_ms, TRUE, app.max_exposure_ms)

\* api_settings(), POST: the exposure keys the request holds are stored, the
\* minimum raised to 1 and the maximum raised to 100, and the settings are
\* saved.
ApiSettingsExposure(has_min, min_ms, has_max, max_ms) ==
  LET app == [min_exposure_ms |->
                IF has_min THEN Max(DefaultMinExposure, min_ms)
                           ELSE exposure_settings.app.min_exposure_ms,
              max_exposure_ms |->
                IF has_max THEN Max(MaxExposureFloor, max_ms)
                           ELSE exposure_settings.app.max_exposure_ms]
  IN  /\ exposure_settings' =
           [exposure_settings EXCEPT !.app = app, !.file = SavedExposure(app)]
      /\ SettingsFrame

\* load_config() at the start of the web process: the exposure keys of the
\* file are copied as they are.
LoadConfigExposure ==
  /\ exposure_settings' =
       [exposure_settings EXCEPT
          !.app = [min_exposure_ms |->
                     IF exposure_settings.file.has_min
                       THEN exposure_settings.file.min_exposure_ms
                       ELSE DefaultMinExposure,
                   max_exposure_ms |->
                     IF exposure_settings.file.has_max
                       THEN exposure_settings.file.max_exposure_ms
                       ELSE DefaultMaxExposure]]
  /\ SettingsFrame

\* load_exposure_config() at the start of a capture process.
LoadExposure ==
  /\ exposure_settings' =
       [exposure_settings EXCEPT
          !.loaded = LoadExposureConfig(exposure_settings.file)]
  /\ SettingsFrame

\* The configuration file is written outside the program, by hand.
EditConfigFile(cfg) ==
  /\ exposure_settings' = [exposure_settings EXCEPT !.file = cfg]
  /\ SettingsFrame

\* Exposure limits a settings request holds, in milliseconds.
MinExposureInputs == {0, 1, 200, 40000}
MaxExposureInputs == {50, 100, 500}

NextSettings ==
  \/ \E has_min, has_max \in BOOLEAN,
        min_ms \in MinExposureInputs, max_ms \in MaxExposureInputs :
        ApiSettingsExposure(has_min, min_ms, has_max, max_ms)
  \/ LoadConfigExposure
  \/ LoadExposure
  \/ \E cfg \in ExposureConfigs : EditConfigFile(cfg)

\* A fresh installation without a configuration file.
InitSettings ==
  /\ InitGlobals
  /\ config = NoConfig

SpecSettings == InitSettings /\ [][NextSettings]_vars

\* ------------------------------------------------- the image catalog

MaxFiles == 3
MaxRequest == 2
\* The calendar days of the file-name timestamps, and the modification times.
CalendarDays == {1, 2}
ModifiedTimes == {1, 2}
\* The file name holds no timestamp that strptime() accepts.
NoDay == 0

\* The hours of the file-name timestamps: the last hour before noon and the
\* first after it, and for the scan midnight and the last hour of the day too.
CatalogHours == {11, 12}
ScanHours == {0, 11, 12, 23}

\* An image file: its name, the calendar day and the hour of the timestamp in
\* its name (NoDay when it has none), and its modification time.
FileNames == 1..MaxFiles
ImageFiles ==
  [name : FileNames, day : {NoDay} \cup CalendarDays, hour : CatalogHours,
   modified : ModifiedTimes]

\* The strings the catalog and the deletion request compare: a calendar day
\* 'YYYY-MM-DD', a label 'Night of <day d> to <day d + 1>', 'Unknown Date'.
DayString(d) == [kind |-> "day", d |-> d, e |-> d]
NightLabel(d, e) == [kind |-> "night", d |-> d, e |-> e]
UnknownDate == [kind |-> "unknown", d |-> NoDay, e |-> NoDay]

\* A bucketing by the calendar day alone.
NightSession_CalendarDay(day, hour) ==
  [night_start |-> day, night_end |-> day + 1]

\* get_night_session_for_image(): night_start and night_end of a timestamp.
NightSession(day, hour) ==
  IF hour < 12
    THEN [night_start |-> day - 1, night_end |-> day]
    ELSE [night_start |-> day, night_end |-> day + 1]

\* get_night_session_for_image(): the display label.
GetNightSessionForImage(f) ==
  IF f.day = NoDay THEN UnknownDate
  ELSE LET n == NightSession(f.day, f.hour)
       IN  NightLabel(n.night_start, n.night_end)

\* image_day: the date part of the timestamp, or 'Unknown Date'.
ImageDay(f) == IF f.day = NoDay THEN UnknownDate ELSE DayString(f.day)

\* get_all_images(): the files that can come first in the scan sorted by
\* modification time, newest first (the order of files of equal modification
\* time is the order glob() gave them).
Newest(files) == {f \in files : \A g \in files : g.modified <= f.modified}

CatalogFrame ==
  UNCHANGED <<globals, config, booted, worker, manual, req, waits, decision,
              search, exposure_settings>>

\* A capture process saves an image.
NewImage(f) ==
  /\ \A g \in catalog.files : g.name # f.name
  /\ catalog' = [catalog EXCEPT !.files = @ \cup {f}]
  /\ CatalogFrame

\* A deletion loop that the first failure aborts.
DeleteLoop_AbortsOnFailure(days, latest, images_to_delete, failed, gone) ==
  LET skipped == {f \in images_to_delete : f.name \in gone}
      failed_deletions == {f \in images_to_delete \ skipped : f.name \in failed}
      removed == IF failed_deletions # {} THEN {}
                 ELSE images_to_delete \ skipped
  IN  [files |-> catalog.files \ (removed \cup skipped), op |-> "deleted",
       days |-> days, latest |-> latest.name, scanned |-> catalog.files,
       deleted |-> removed, failed_deletions |-> failed_deletions,
       skipped |-> skipped,
       status |-> IF failed_deletions # {} THEN "partial" ELSE "success"]

\* The deletion loop and the response: a candidate whose file is gone
\* (os.path.exists() is false) is passed over, os.remove() raises for the
\* candidates named in failed, and the others are removed.
DeleteLoop(days, latest, images_to_delete, failed, gone) ==
  LET skipped == {f \in images_to_delete : f.name \in gone}
      failed_deletions == {f \in images_to_delete \ skipped : f.name \in failed}
      removed == images_to_delete \ (skipped \cup failed_deletions)
  IN  [files |-> catalog.files \ (removed \cup skipped), op |-> "deleted",
       days |-> days, latest |-> latest.name, scanned |-> catalog.files,
       deleted |-> removed, failed_deletions |-> failed_deletions,
       skipped |-> skipped,
       status |-> IF failed_deletions # {} THEN "partial" ELSE "success"]

\* api_delete_images() that does not skip the latest image.
ApiDeleteImages_NoSkip(days, latest, failed, gone) ==
  /\ latest \in Newest(catalog.files)
  /\ LET images_to_delete == {f \in catalog.files : ImageDay(f) \in days}
     IN  catalog' =
           IF days = {} THEN [catalog EXCEPT !.op = "error"]
           ELSE DeleteLoop(days, latest, images_to_delete, failed, gone)
  /\ CatalogFrame

\* api_delete_images() on a directory without images.
ApiDeleteNoImages(days) ==
  /\ catalog.files = {}
  /\ catalog' = [catalog EXCEPT !.op = "error"]
  /\ CatalogFrame

\* api_delete_images(): the images other than the first of the scan whose
\* day is in the request are the candidates of the deletion loop.
ApiDeleteImages(days, latest, failed, gone) ==
  /\ latest \in Newest(catalog.files)
  /\ LET images_to_delete ==
           {f \in catalog.files : f.name # latest.name /\ ImageDay(f) \in days}
     IN  catalog' =
           IF days = {} THEN [catalog EXCEPT !.op = "error"]
           ELSE DeleteLoop(days, latest, images_to_delete, failed, gone)
  /\ CatalogFrame

\* The strings a deletion request can hold.
DayInputs ==
  {DayString(d) : d \in CalendarDays}
    \cup {NightLabel(d, d + 1) : d \in CalendarDays}
    \cup {UnknownDate}

\* The requests: at most MaxRequest strings.
Requests == {days \in SUBSET DayInputs : Cardinality(days) <= MaxRequest}
\* What goes wrong in the deletion loop: nothing, os.remove() raises for the
\* first file, or the second file is gone when the loop reaches it.
RemoveFailures ==
  {[failed |-> {}, gone |-> {}], [failed |-> {1}, gone |-> {}],
   [failed |-> {}, gone |-> {2}]}

\* One deletion request is followed.
CatalogFuel == catalog.op = "none"

NextCatalog ==
  /\ CatalogFuel
  /\ \/ \E f \in ImageFiles : NewImage(f)
     \/ \E days \in Requests, latest \in catalog.files,
           wrong \in RemoveFailures :
           ApiDeleteImages(days, latest, wrong.failed, wrong.gone)
     \/ \E days \in Requests : ApiDeleteNoImages(days)

InitCatalog ==
  /\ InitGlobals
  /\ config = NoConfig

SpecCatalog == InitCatalog /\ [][NextCatalog]_vars

\* get_all_images(): every file with its night session.
GetAllImages ==
  /\ catalog' =
       [catalog EXCEPT
          !.op = "scanned",
          !.images =
            {[file |-> f,
              night_session_start |->
                IF f.day = NoDay THEN NoDay
                ELSE NightSession(f.day, f.hour).night_start,
              night_session_end |->
                IF f.day = NoDay THEN NoDay
                ELSE NightSession(f.day, f.hour).night_end,
              night_session_label |-> GetNightSessionForImage(f)] :
             f \in catalog.files}]
  /\ CatalogFrame

\* The files of the scans: timestamps around midnight and around noon.
ScanFiles ==
  [name : FileNames, day : CalendarDays, hour : ScanHours, modified : {1}]

\* One scan is followed.
NextScan ==
  /\ CatalogFuel
  /\ \/ \E f \in ScanFiles : NewImage(f)
     \/ GetAllImages

SpecScan == InitCatalog /\ [][NextScan]_vars

\* ------------------------------------------------------------------ claims

\* Acquisitions in flight on the camera.
InFlight ==
  Cardinality({w \in Workers : WorkerInFlight(w)})
    + Cardinality({m \in Manuals : ManualInFlight(m)})

\* C1: at no time are two acquisition cycles in flight on the camera: a manual
\* cycle and a worker cycle (or two manual cycles) never overlap.
C1_OneAcquisitionAtATime == InFlight <= 1

\* C2: Stop() followed by Start() never leaves two worker loops alive: while
\* the previous worker has not ended, Start() returns AlreadyRunning and
\* launches nothing.
C2_OneWorkerAlive ==
  /\ Cardinality(AliveWorkers) <= 1
  /\ \A h \in Handlers :
       req[h].pc = "start_launch" => AliveWorkers = {}

\* C2's case: the signalled worker is still inside an acquisition (Stop's join
\* timed out) and Start() has returned AlreadyRunning.
C2_Witness ==
  /\ req[1] = Returned("Start", "AlreadyRunning")
  /\ stop_capture_flag
  /\ ~background_capture_enabled
  /\ WorkerInFlight(capture_thread)

\* C3: a failed acquisition cycle in the worker is one missed cycle: the step
\* that ends a cycle, or finds the subprocess unspawnable, leaves the worker
\* in its loop and leaves runIntent, the stop signal and the persisted intent
\* as they were.
C3_FailedCycleIsMissedCycle ==
  [][\A w \in Workers :
       (/\ booted'
        /\ worker'[w] # worker[w]
        /\ \/ worker[w].pc = "cap_run"
           \/ worker[w].pc = "tick" /\ ~stop_capture_flag)
       => /\ worker'[w].pc \in {"cap_run", "sleep", "tick"}
          /\ worker'[w].pc = "sleep" => worker'[w].left = capture_interval
          /\ UNCHANGED <<background_capture_enabled, stop_capture_flag, config>>]_vars

\* C3's case: a worker whose last capture failed is capturing again.
C3_Witness ==
  \E w \in Workers : worker[w].success = "false" /\ WorkerInFlight(w)

C6_CooperativeStop ==
  /\ \A w \in Workers :
       (stop_capture_flag /\ Alive(w)) ~> (~Alive(w) \/ ~stop_capture_flag)
  /\ [][\A w \in Workers :
          (stop_capture_flag /\ booted' /\ worker'[w] # worker[w])
          => /\ worker[w].pc = "cap_run"
                => /\ worker'[w].pc \in {"sleep", "tick"}
                   /\ last_capture_time' = last_capture_time + 1
             /\ worker[w].pc = "sleep" => worker'[w].pc = "tick"
             /\ worker[w].pc = "tick" => worker'[w].pc = "none"]_vars

\* C6's case: Stop() returned while the worker was inside an acquisition (its
\* join timed out); the acquisition has completed since, and the worker has
\* seen the signal at its first check and is back at the loop head.
C6_Witness ==
  /\ req[1] = Returned("Stop", "Stopped")
  /\ stop_capture_flag
  /\ worker[capture_thread].pc = "tick"
  /\ last_capture_time >= 1

\* C7: the log never holds more than 100 lines.
C7_LogAtMostCap == Len(capture_log) <= LogCap

\* C8: TriggerOnce while isCapturing is true is rejected with
\* CaptureInProgress: it launches no acquisition and changes no scheduler
\* state (isCapturing, runIntent, lastCaptureUnixTime, interval, log).
C8_TriggerWhileCapturingRejected ==
  [][\A h \in Handlers :
       (/\ req[h].pc = "idle"
        /\ req'[h] # req[h]
        /\ req'[h].op = "TriggerOnce"
        /\ is_capturing)
       => /\ req'[h] = Returned("TriggerOnce", "CaptureInProgress")
          /\ UNCHANGED <<globals, config, worker, manual>>]_vars

\* C8's case: a trigger has been rejected and the capture it ran into is
\* still in flight.
C8_Witness ==
  /\ req[1] = Returned("TriggerOnce", "CaptureInProgress")
  /\ is_capturing
  /\ InFlight = 1

\* C9: on process start the worker is launched exactly when the persisted
\* runIntent is true, as a fresh thread, and runIntent takes and keeps its
\* persisted value.
C9_ResumeIffPersistedIntent ==
  [][(~booted /\ booted')
       => LET intent == config.exists /\ config.background_capture_enabled
          IN  /\ background_capture_enabled' = intent
              /\ config'.background_capture_enabled = intent
              /\ intent => /\ Cardinality(AliveWorkers') = 1
                           /\ CaptureThreadAlive'
                           /\ worker'[capture_thread'].pc = "begin"
                           /\ ~stop_capture_flag'
              /\ ~intent => AliveWorkers' = {}]_vars

\* C9's case: the process has been restarted after a SetInterval and a Start
\* of an earlier run, and the worker has been resumed.
C9_Witness ==
  /\ booted
  /\ req[1] = IdleRequest
  /\ config.capture_interval = MinInterval
  /\ capture_interval = MinInterval
  /\ background_capture_enabled
  /\ worker[capture_thread].pc = "begin"

\* C10: SetInterval below 30 is rejected and has no effect on the interval,
\* the configuration file, runIntent or the worker; starting from the
\* default, the interval in memory and on file is never below 30.
C10_IntervalAtLeastMinimum ==
  /\ [](/\ capture_interval >= MinInterval
        /\ config.capture_interval >= MinInterval)
  /\ [][\A h \in Handlers :
          (req'[h] # req[h] /\ req'[h].op = "SetInterval" /\ req[h].pc = "idle")
          => \/ /\ req'[h].result \in {"IntervalRejected", "InvalidInterval"}
                /\ UNCHANGED <<globals, config, worker, manual>>
             \/ /\ req'[h].result \in {"IntervalUpdated", "pending"}
                /\ capture_interval' >= MinInterval
                /\ config'.capture_interval = capture_interval']_vars

\* C10's case: an interval has been set to the minimum, and a later request
\* below it has been rejected.
C10_Witness ==
  /\ req[1] = Returned("SetInterval", "IntervalRejected")
  /\ capture_interval = MinInterval
  /\ config.exists /\ config.capture_interval = MinInterval

\* C11: between the end of one worker acquisition cycle and the start of the
\* next one there are at least N one-second waits, N being the configured
\* interval, whatever Stop, Start and SetInterval calls come in between.
C11_IntervalBetweenCycles ==
  [][\A w \in Workers :
       (/\ worker[w].pc = "tick"
        /\ worker'[w].pc = "cap_run"
        /\ waits # NoWaits)
       => waits >= capture_interval]_vars

\* A step in which worker w takes a scheduling decision at its loop head.
Ticks(w) ==
  /\ worker[w].pc = "tick"
  /\ ~stop_capture_flag
  /\ worker'[w] # worker[w]
  /\ decision' # NoDecision

\* The decision of that step was to run an acquisition cycle (which the
\* subprocess may fail to start) and not to gate the tick.
RunsCycle(w) == worker'[w].pc = "cap_run" \/ worker'[w].success = "false"

\* The four window-policy flags are off.
AllFlagsOff(settings) ==
  /\ ~settings.capture_daytime
  /\ ~settings.capture_civil_twilight
  /\ ~settings.capture_nautical_twilight
  /\ ~settings.capture_astronomical_darkness

\* The window-policy flag of a known period.
FlagOf(settings, period) ==
  CASE period = "daytime" -> settings.capture_daytime
    [] period = "civil_twilight" -> settings.capture_civil_twilight
    [] period = "nautical_twilight" -> settings.capture_nautical_twilight
    [] period = "astronomical_darkness" -> settings.capture_astronomical_darkness

KnownPeriods == Periods \ {"unknown"}

\* C12: without a site (latitude or longitude unset) the period resolves to
\* unknown and every worker tick runs an acquisition cycle, whatever the four
\* window flags are.
C12_NoSitePermissive ==
  [][\A w \in Workers :
       (Ticks(w) /\ ~app_settings.located)
       => /\ decision'.period = "unknown"
          /\ RunsCycle(w)]_vars

\* C12's case: no site, every flag off, and the tick is capturing.
C12_Witness ==
  /\ ~app_settings.located
  /\ AllFlagsOff(app_settings)
  /\ decision.period = "unknown"
  /\ WorkerInFlight(capture_thread)

\* C13 as stated: with the four flags off no worker tick starts an acquisition
\* cycle, for every site and every time of day.
C13_AllOffNeverCaptures ==
  [][\A w \in Workers :
       (Ticks(w) /\ AllFlagsOff(app_settings)) => ~RunsCycle(w)]_vars

\* C13 amended: with the four flags off a worker tick starts an acquisition
\* cycle exactly when the period resolves to unknown; in each of the four
\* known periods the tick is gated.
C13_AllOffCapturesOnlyUnknown ==
  [][\A w \in Workers :
       (Ticks(w) /\ AllFlagsOff(app_settings))
       => (RunsCycle(w) <=> decision'.period = "unknown")]_vars

\* C13's case: a site, every flag off, astronomical darkness, and the worker
\* waits after its gated tick.
C13_Witness ==
  /\ app_settings.located
  /\ AllFlagsOff(app_settings)
  /\ decision.period = "astronomical_darkness"
  /\ worker[capture_thread].pc = "sleep"
  /\ last_capture_time = 0

\* C14: in each of the four known periods a worker tick runs an acquisition
\* cycle exactly when the flag of that period is set; a gated tick starts no
\* acquisition, leaves is_capturing false, appends one log line and begins
\* the wait of capture_interval seconds.
C14_KnownPeriodFollowsFlag ==
  [][\A w \in Workers :
       (Ticks(w) /\ decision'.period \in KnownPeriods)
       => /\ RunsCycle(w) <=> FlagOf(app_settings, decision'.period)
          /\ ~RunsCycle(w)
             => /\ ~is_capturing'
                /\ Len(capture_log') = Len(capture_log) + 1
                /\ worker'[w].pc = "sleep"
                /\ worker'[w].left = capture_interval
                /\ UNCHANGED <<last_capture_time, manual>>]_vars

\* C14's case: civil twilight with only the civil flag set, and the tick is
\* capturing.
C14_Witness ==
  /\ decision.period = "civil_twilight"
  /\ app_settings.capture_civil_twilight
  /\ ~app_settings.capture_astronomical_darkness
  /\ ~app_settings.capture_nautical_twilight
  /\ ~app_settings.capture_daytime
  /\ WorkerInFlight(capture_thread)

\* C15: for a site whose sunset is before midnight and whose sunrise is after
\* it, every now later than sunset + 1.5 h and every now after midnight and
\* earlier than sunrise - 1.5 h resolves to astronomical darkness.
C15_DarknessWrapsMidnight ==
  (/\ app_settings.located
   /\ decision.kind = "times"
   /\ 0 < decision.sunrise
   /\ decision.sunrise < decision.sunset
   /\ decision.sunset < Day
   /\ \/ decision.now > decision.sunset + AstronomicalOffset
      \/ decision.now < decision.sunrise - AstronomicalOffset)
  => decision.period = "astronomical_darkness"

\* C16: a now equal to the computed sunset resolves to civil twilight.
C16_SunsetIsCivil ==
  (/\ app_settings.located
   /\ decision.kind = "times"
   /\ decision.now = decision.sunset)
  => decision.period = "civil_twilight"

\* C17 as stated: in the polar night the period resolves to unknown and the
\* tick does not capture.
C17_PolarNightNoCapture ==
  [][\A w \in Workers :
       (Ticks(w) /\ app_settings.located /\ decision'.kind = "polar_night")
       => /\ decision'.period = "unknown"
          /\ ~RunsCycle(w)]_vars

\* C17 amended: in the polar night the period resolves to unknown and the
\* tick runs an acquisition cycle, whatever the window flags are.
C17_PolarNightPermissive ==
  [][\A w \in Workers :
       (Ticks(w) /\ app_settings.located /\ decision'.kind = "polar_night")
       => /\ decision'.period = "unknown"
          /\ RunsCycle(w)]_vars

\* C17's case: a site in the polar night, every flag off, and the tick is
\* capturing.
C17_Witness ==
  /\ app_settings.located
  /\ decision.kind = "polar_night"
  /\ AllFlagsOff(app_settings)
  /\ WorkerInFlight(capture_thread)

\* C18: under the midnight sun the period resolves to one of the four known
\* periods, never to unknown.
C18_MidnightSunResolves ==
  (app_settings.located /\ decision.kind = "midnight_sun")
  => decision.period \in KnownPeriods

\* C19: when every trial of a search failed, or no ladder entry lies within
\* the bounds so that no trial was made, the search returns the Fallback
\* outcome with the fallback exposure, which is the maximum exposure.
C19_AllFailedGivesFallback ==
  /\ search.pc # "none" => search.FALLBACK_EXPOSURE_MS = search.MAX_EXPOSURE_MS
  /\ (search.pc = "done" /\ (search.fails = "always" \/ search.tested = <<>>))
     => /\ search.outcome = "Fallback"
        /\ search.result = 2 * search.FALLBACK_EXPOSURE_MS
        /\ search.result = 2 * search.MAX_EXPOSURE_MS

\* C19's case: a configured maximum of 500 ms, seven failed trials, and the
\* search has returned.
C19_Witness ==
  /\ search.pc = "done"
  /\ search.fails = "always"
  /\ search.MAX_EXPOSURE_MS = 500
  /\ Len(search.tested) = 7
  /\ search.outcome = "Fallback"

\* The candidates a search can generate: the coarse steps within the bounds,
\* and the refinement steps between the two bounds once both are found.
Candidates(sr) ==
  LET ladder == CoarseLadder(sr.MIN_EXPOSURE_MS, sr.MAX_EXPOSURE_MS)
      refine == IF sr.lower_bound # NoBound /\ sr.upper_bound # NoBound
                  THEN RefineSteps(sr.lower_bound, sr.upper_bound)
                  ELSE <<>>
  IN  {ladder[i] : i \in 1..Len(ladder)} \cup {refine[i] : i \in 1..Len(refine)}

\* C20: with a mock acquisition that never fails and is linear in the
\* exposure, and min <= max, the returned exposure is within tolerance of the
\* target whenever some candidate the search can generate is.
C20_LinearMockFindsTolerance ==
  (/\ search.pc = "done"
   /\ search.fails = "never"
   /\ search.MIN_EXPOSURE_MS <= search.MAX_EXPOSURE_MS
   /\ \E e2 \in Candidates(search) :
        WithinTolerance(search.k, search.target_adu, e2))
  => WithinTolerance(search.k, search.target_adu, search.result)

\* C20's case: no coarse step is within tolerance, and the search has returned
\* a refinement step that is.
C20_Witness ==
  /\ search.pc = "done"
  /\ search.fails = "never"
  /\ search.outcome = "WithinTolerance"
  /\ search.lower_bound # NoBound /\ search.upper_bound # NoBound
  /\ search.lower_bound < search.result /\ search.result < search.upper_bound

\* Trial i of the search succeeded with a brightness within tolerance.
Hit(sr, i) == sr.adu[i] # NoAdu /\ Accepted(sr.adu[i], sr.target_adu)

\* C21: in either phase, the first trial within tolerance of the target ends
\* the search at once: it is the last trial made, and its exposure is the one
\* returned.
C21_FirstHitEndsSearch ==
  \A i \in 1..Len(search.adu) :
    Hit(search, i)
    => /\ i = Len(search.adu)
       /\ search.pc \in {"done", "retry", "exit"}
       /\ search.outcome = "WithinTolerance"
       /\ search.result = search.tested[i]

\* C21's case: after a too-dark coarse step and a too-bright one, a
\* refinement step is within tolerance and is returned.
C21_Witness ==
  /\ search.pc = "done"
  /\ search.fails = "scripted"
  /\ search.lower_bound # NoBound /\ search.upper_bound # NoBound
  /\ Len(search.adu) >= 3
  /\ Hit(search, Len(search.adu))
  /\ search.lower_bound < search.result /\ search.result < search.upper_bound

\* The step makes a trial, and the trial fails.
TrialFailed ==
  /\ Len(search'.adu) = Len(search.adu) + 1
  /\ search'.adu[Len(search'.adu)] = NoAdu

\* C22: a failed trial never aborts the search: the failure is recorded, the
\* search stays in its phase with its bounds and best result, and goes on
\* with the candidates that were left.
C22_FailedTrialAdvances ==
  [][TrialFailed
     => /\ search.pc \in {"phase1", "phase2"}
        /\ search.todo # <<>>
        /\ search' = [search EXCEPT
                        !.tested = Append(@, Head(search.todo)),
                        !.adu = Append(@, NoAdu),
                        !.todo = Tail(@)]]_vars

\* C22's case: a coarse step failed and a later one was tried, and a
\* refinement step failed and the next one was tried.
C22_Witness ==
  /\ search.fails = "scripted"
  /\ search.lower_bound # NoBound /\ search.upper_bound # NoBound
  /\ \E i \in 1..(Len(search.adu) - 1) :
        /\ search.adu[i] = NoAdu /\ search.adu[i + 1] # NoAdu
        /\ search.tested[i] < search.lower_bound
  /\ \E i \in 1..(Len(search.adu) - 1) :
        /\ search.adu[i] = NoAdu /\ search.adu[i + 1] # NoAdu
        /\ search.lower_bound < search.tested[i]
        /\ search.tested[i] < search.upper_bound

\* The trials of the search that succeeded.
Succeeded(sr) == {i \in 1..Len(sr.adu) : sr.adu[i] # NoAdu}

\* C23: when some trial succeeded and none was within tolerance, the search
\* returns BestEffort with the exposure of a successful trial whose distance
\* from the target is minimal among the successful trials of both phases.
C23_BestEffortIsMinimal ==
  (/\ search.pc = "done"
   /\ Succeeded(search) # {}
   /\ \A i \in Succeeded(search) : ~Hit(search, i))
  => /\ search.outcome = "BestEffort"
     /\ \E i \in Succeeded(search) :
          /\ search.result = search.tested[i]
          /\ \A j \in Succeeded(search) :
               RatioDiff(search.adu[i], search.target_adu)
                 <= RatioDiff(search.adu[j], search.target_adu)

\* C23's case: both phases ran with failed and successful trials at different
\* distances from the target, none within tolerance, and the exposure
\* returned is neither the first nor the last successful one.
C23_Witness ==
  /\ search.pc = "done"
  /\ search.outcome = "BestEffort"
  /\ search.lower_bound # NoBound /\ search.upper_bound # NoBound
  /\ \E i \in 1..Len(search.adu) : search.adu[i] = NoAdu
  /\ \E i, j \in Succeeded(search) : search.adu[i] # search.adu[j]
  /\ \E i \in Succeeded(search) :
       /\ search.tested[i] > search.lower_bound
       /\ search.result # search.tested[i]
  /\ \E i \in Succeeded(search) :
       /\ search.tested[i] < search.result
       /\ RatioDiff(search.adu[i], search.target_adu) > search.best_err

\* The coarse walk is over and no trial was within tolerance: every trial made
\* so far is a coarse step.
CoarseDone == search.pc = "phase1" /\ search.todo = <<>>

\* The tested exposures whose brightness was below the target, and those whose
\* brightness was at or above it.
TestedDark(sr) ==
  {sr.tested[i] : i \in {j \in Succeeded(sr) : BelowTarget(sr.adu[j], sr.target_adu)}}
TestedBright(sr) ==
  {sr.tested[i] : i \in {j \in Succeeded(sr) : ~BelowTarget(sr.adu[j], sr.target_adu)}}

\* C24: when Phase 1 ends without a trial within tolerance, lower_bound is
\* the highest tested exposure that was too dark and upper_bound is the lowest
\* tested exposure that was too bright (each None when there is no such
\* exposure).
C24_BoundsBracketTarget ==
  CoarseDone
  => /\ IF TestedDark(search) = {}
          THEN search.lower_bound = NoBound
          ELSE /\ search.lower_bound \in TestedDark(search)
               /\ \A e \in TestedDark(search) : e <= search.lower_bound
     /\ IF TestedBright(search) = {}
          THEN search.upper_bound = NoBound
          ELSE /\ search.upper_bound \in TestedBright(search)
               /\ \A e \in TestedBright(search) : search.upper_bound <= e

\* C25: in Phase 1, once a lower bound and an upper bound have both been
\* recorded, in whichever order, no further ladder entry is tried.
C25_WalkStopsAtBothBounds ==
  [][(/\ search.pc = "phase1"
      /\ search.lower_bound # NoBound
      /\ search.upper_bound # NoBound)
     => search'.tested = search.tested]_vars

\* The number of ladder entries, and of refinement candidates once both bounds
\* are known.
LadderEntries(sr) == Len(CoarseLadder(sr.MIN_EXPOSURE_MS, sr.MAX_EXPOSURE_MS))
RefineCandidates(sr) ==
  IF sr.lower_bound # NoBound /\ sr.upper_bound # NoBound
    THEN Len(RefineSteps(sr.lower_bound, sr.upper_bound))
    ELSE 0

\* The trials made never exceed the ladder entries plus the refinement
\* candidates, and a search that has returned has returned an exposure.
TrialsBounded ==
  /\ Len(search.tested) <= LadderEntries(search) + RefineCandidates(search)
  /\ search.pc = "phase1" => Len(search.tested) <= LadderEntries(search)
  /\ search.pc = "done" => search.result > 0

\* C26: the exposure search always terminates, for every configuration of the
\* bounds and every pattern of trial results and failures: the number of
\* trials is at most the ladder entries plus the refinement candidates, and a
\* search that has begun returns an exposure.
C26_SearchTerminates ==
  /\ []TrialsBounded
  /\ (search.pc \in {"phase1", "phase2"}) ~> (search.pc = "done")

\* C26's case: a search has returned after trying every ladder entry and
\* every refinement candidate.
C26_Witness ==
  /\ search.pc = "done"
  /\ RefineCandidates(search) > 0
  /\ Len(search.tested) = LadderEntries(search) + RefineCandidates(search)
  /\ \E i \in 1..Len(search.adu) : search.adu[i] = NoAdu

\* C27: in every acquisition cycle, after the search has returned its
\* exposure, exactly one final acquisition is made, at that exposure.
C27_OneFinalAtChosenExposure ==
  /\ Len(search.finals) <= 1
  /\ \A i \in 1..Len(search.finals) : search.finals[i] = search.result
  /\ search.status \in {"success", "failed"} => Len(search.finals) = 1

\* minExposureMs >= 1 and maxExposureMs >= minExposureMs
BoundsOrdered(min_ms, max_ms) == min_ms >= 1 /\ max_ms >= min_ms

\* C28: after any sequence of settings updates and configuration loads, the
\* exposure limits, in the settings and as the capture process loaded them,
\* satisfy minimum >= 1 and maximum >= minimum.
C28_ExposureBoundsOrdered ==
  /\ BoundsOrdered(exposure_settings.app.min_exposure_ms,
                   exposure_settings.app.max_exposure_ms)
  /\ BoundsOrdered(exposure_settings.loaded.MIN_EXPOSURE_MS,
                   exposure_settings.loaded.MAX_EXPOSURE_MS)

\* The first record of the scan at the last deletion.
Latest == {f \in catalog.scanned : f.name = catalog.latest}

\* C29: a deletion never deletes the newest record, the first of the scan
\* sorted newest first by modification time, whatever the catalog and the
\* request, also when the request holds the newest record's own label.
C29_NewestSurvives ==
  catalog.op = "deleted"
  => \E f \in Latest :
       /\ f \in Newest(catalog.scanned)
       /\ f \notin catalog.deleted
       /\ f \in catalog.files

\* C29's case: the request holds the day and the night-session label of the
\* newest record, and another record was deleted.
C29_Witness ==
  /\ catalog.op = "deleted"
  /\ catalog.deleted # {}
  /\ \E f \in Latest :
       /\ ImageDay(f) \in catalog.days
       /\ GetNightSessionForImage(f) \in catalog.days
       /\ f \in catalog.files

\* C30: a deletion in which no removal fails and no file is gone deletes exactly the records,
\* other than the newest, whose night-session label (the noon-to-noon bucket)
\* is in the requested set.
C30_DeletesRequestedSessions ==
  (/\ catalog.op = "deleted"
   /\ catalog.failed_deletions = {}
   /\ catalog.skipped = {})
  => catalog.deleted =
       {f \in catalog.scanned :
          /\ f.name # catalog.latest
          /\ GetNightSessionForImage(f) \in catalog.days}

\* The records the last deletion set out to delete: those other than the
\* first of the scan whose day is in the request.
ImagesToDelete ==
  {f \in catalog.scanned :
     f.name # catalog.latest /\ ImageDay(f) \in catalog.days}

\* C31: a deletion that fails for one file, for example because the file was
\* already removed, is recorded as a partial failure and does not abort the
\* batch: every candidate is deleted or recorded as failed, and the status is
\* partial if any deletion failed (a file already removed included) and
\* success otherwise.
C31_FailedDeletionIsPartial ==
  catalog.op = "deleted"
  => /\ catalog.deleted \cup catalog.failed_deletions = ImagesToDelete
     /\ catalog.status = "partial"
          <=> (catalog.failed_deletions \cup catalog.skipped) # {}
     /\ catalog.status \in {"partial", "success"}

\* C31, amended: a removal that raises is recorded as a failure and does not
\* abort the batch: every candidate is removed, recorded as failed, or passed
\* over because its file is already gone; the status is partial exactly when
\* some removal raised, and a file already gone is no failure.
C31_RaisedRemovalIsPartial ==
  catalog.op = "deleted"
  => /\ catalog.deleted \cup catalog.failed_deletions \cup catalog.skipped
          = ImagesToDelete
     /\ catalog.deleted \cap catalog.failed_deletions = {}
     /\ catalog.deleted \cap catalog.skipped = {}
     /\ catalog.failed_deletions \cap catalog.skipped = {}
     /\ catalog.deleted \cap catalog.files = {}
     /\ catalog.failed_deletions \subseteq catalog.files
     /\ catalog.status = "partial" <=> catalog.failed_deletions # {}
     /\ catalog.status = "success" <=> catalog.failed_deletions = {}

\* C31's case: one removal raised, another candidate was removed all the
\* same, and the status is partial.
C31_Witness ==
  /\ catalog.op = "deleted"
  /\ catalog.status = "partial"
  /\ catalog.failed_deletions # {}
  /\ catalog.deleted # {}

\* A file already gone was passed over, and the status is success.
C31_GoneWitness ==
  /\ catalog.op = "deleted"
  /\ catalog.skipped # {}
  /\ catalog.status = "success"

\* C32: a capture with hour < 12 on date D gets the session label running
\* from D-1 to D, one with hour >= 12 the label running from D to D+1; hence
\* a capture at 23h on D and one at 0h on D+1 share a label, and one at 12h on
\* D+1 has a different label, that of the next session.
C32_NoonToNoonSessions ==
  catalog.op = "scanned"
  => /\ \A r \in catalog.images :
          LET D == r.file.day
          IN  /\ r.file.hour < 12
                   => /\ r.night_session_start = D - 1
                      /\ r.night_session_end = D
                      /\ r.night_session_label = NightLabel(D - 1, D)
              /\ r.file.hour >= 12
                   => /\ r.night_session_start = D
                      /\ r.night_session_end = D + 1
                      /\ r.night_session_label = NightLabel(D, D + 1)
     /\ \A r, q \in catalog.images :
          (r.file.hour = 23 /\ q.file.day = r.file.day + 1)
          => /\ q.file.hour = 0
                  => q.night_session_label = r.night_session_label
             /\ q.file.hour = 12
                  => /\ q.night_session_label # r.night_session_label
                     /\ q.night_session_start = r.night_session_end

\* C32's case: the scan holds a capture at 23h on day 1, one at 0h on day 2
\* with the same label, and one at 12h on day 2 with another.
C32_Witness ==
  /\ catalog.op = "scanned"
  /\ \E r, q, p \in catalog.images :
       /\ r.file.day = 1 /\ r.file.hour = 23
       /\ q.file.day = 2 /\ q.file.hour = 0
       /\ p.file.day = 2 /\ p.file.hour = 12
       /\ q.night_session_label = r.night_session_label
       /\ p.night_session_label # r.night_session_label

\* The successful trials whose distance from the target is the smallest.
Closest(sr) ==
  {i \in Succeeded(sr) :
     \A j \in Succeeded(sr) :
       RatioDiff(sr.adu[i], sr.target_adu) <= RatioDiff(sr.adu[j], sr.target_adu)}

\* C33: the best-seen candidate is replaced only on a strict improvement, so
\* among the successful trials of equal, smallest distance from the target
\* the one tested earliest is the one a best-effort search returns.
C33_EarliestOfEqualsWins ==
  (search.pc = "done" /\ search.outcome = "BestEffort")
  => \E i \in Closest(search) :
       /\ \A j \in Closest(search) : i <= j
       /\ search.result = search.tested[i]

\* C33's case: a best-effort search in which two trials at different
\* exposures were equally close to the target, and the earlier is returned.
C33_Witness ==
  /\ search.pc = "done"
  /\ search.outcome = "BestEffort"
  /\ \E i, j \in Closest(search) :
       /\ i < j
       /\ search.tested[i] # search.tested[j]
       /\ search.adu[i] # search.adu[j]
       /\ search.result = search.tested[i]

\* C34: under any interleaving of concurrent Start(), Stop() and SetInterval()
\* requests, two Start() calls that both pass the worker-alive check
\* included, at most one background worker loop is alive at any time.
C34_OneWorkerUnderRaces == Cardinality(AliveWorkers) <= 1

\* C35: the is_capturing flag tracks the camera: it is true whenever an
\* acquisition cycle, of a worker or manual, is in flight; neither a gated
\* worker tick nor the end of one cycle clears it while another cycle runs.
C35_FlagTracksCamera == (InFlight > 0) => is_capturing

\* Handler h's SetInterval call, which found the run intent set, returns.
SetIntervalReturns(h) ==
  /\ req[h].op = "SetInterval"
  /\ req[h].result = "pending"
  /\ req'[h].result = "IntervalRestarted"

\* C36: SetInterval with a valid value while runIntent is true preserves the
\* run intent: when the call returns, the interval is stored and persisted,
\* runIntent is still true (in memory and in the file) and a worker that has
\* not been told to stop is alive, even if the old worker was inside a long
\* acquisition when the call was made.
C36_SetIntervalKeepsIntent ==
  [][\A h \in Handlers :
       SetIntervalReturns(h)
       => /\ capture_interval' >= MinInterval
          /\ config'.capture_interval = capture_interval'
          /\ background_capture_enabled'
          /\ config'.background_capture_enabled
          /\ Alive(capture_thread') /\ ~stop_capture_flag']_vars

\* Handler h's Start call returns AlreadyRunning.
StartReportsAlreadyRunning(h) ==
  /\ req[h] # req'[h]
  /\ req'[h] = Returned("Start", "AlreadyRunning")

\* C37: whenever Start() reports AlreadyRunning the user's intent is already
\* in force: runIntent is true and the live worker has not been signalled to
\* stop, also after a Stop() whose bounded wait timed out.
C37_AlreadyRunningMeansRunning ==
  [][\A h \in Handlers :
       StartReportsAlreadyRunning(h)
       => /\ background_capture_enabled'
          /\ Alive(capture_thread')
          /\ ~stop_capture_flag']_vars

\* The capture process of a manual capture that was given an exposure
\* override has saved its final image.
OverrideCaptured(m) ==
  /\ manual[m].pc = "cap_run"
  /\ manual[m].exposure_ms # NoExposure
  /\ search.argv = Command(manual[m].exposure_ms)
  /\ search.pc = "exit"
  /\ search.status = "success"

\* C38: when TriggerOnce is given an exposure override, the acquisition cycle
\* it runs captures the final image at the override exposure, not at the
\* exposure the search found.
C38_OverrideIsFinalExposure ==
  \A m \in Manuals :
    OverrideCaptured(m)
    => search.finals[Len(search.finals)] = 2 * manual[m].exposure_ms

\* Exposure e2 (in half milliseconds) lies within the loaded limits.
WithinLimits(sr, e2) ==
  2 * sr.MIN_EXPOSURE_MS <= e2 /\ e2 <= 2 * sr.MAX_EXPOSURE_MS

\* C39: for limits with 1 <= min <= max, every exposure the search tries and
\* the exposure it returns (within tolerance, best effort or fallback) lies
\* in [min, max]; phase 2 runs only when both bounds were found, and tries
\* only exposures strictly between the lower and the upper bound.
C39_SearchWithinLimits ==
  (/\ search.pc # "none"
   /\ 1 <= search.MIN_EXPOSURE_MS
   /\ search.MIN_EXPOSURE_MS <= search.MAX_EXPOSURE_MS)
  => /\ \A i \in 1..Len(search.tested) : WithinLimits(search, search.tested[i])
     /\ search.pc \in {"done", "retry", "exit"}
          => WithinLimits(search, search.result)
     /\ search.pc = "phase2"
          => /\ search.lower_bound # NoBound
             /\ search.upper_bound # NoBound
             /\ \A i \in 1..Len(search.todo) :
                  /\ search.lower_bound < search.todo[i]
                  /\ search.todo[i] < search.upper_bound

\* C39's case: under limits with 1 < min <= max the search went through
\* phase 2, tried an exposure that is no coarse step, and returned.
C39_Witness ==
  /\ search.pc = "done"
  /\ 1 < search.MIN_EXPOSURE_MS
  /\ search.MIN_EXPOSURE_MS <= search.MAX_EXPOSURE_MS
  /\ search.lower_bound # NoBound
  /\ search.upper_bound # NoBound
  /\ \E i \in 1..Len(search.tested) :
       /\ search.lower_bound < search.tested[i]
       /\ search.tested[i] < search.upper_bound
       /\ \A j \in 1..Len(CoarseSteps) : search.tested[i] # 2 * CoarseSteps[j]

====
